---- MODULE Spec2Model ----
(***************************************************************************)
(* Record Store of the Dharvis assistant (src/src/database.py): the tasks  *)
(* and events tables, their CRUD operations and the fuzzy title lookup,    *)
(* modelled statement by statement, SQL included.                          *)
(*                                                                         *)
(* Text is a sequence of characters.  Optional values (Python None, SQL    *)
(* NULL) are NONE == <<>>, present values are Some(x) == <<x>>.            *)
(***************************************************************************)
EXTENDS Integers, Sequences, FiniteSets, TLC

VARIABLES
    tasks,          \* rows of table tasks: id -> row
    events,         \* rows of table events: id -> row
    task_seq,       \* sqlite_sequence of tasks: the largest id ever given
    event_seq,      \* sqlite_sequence of events
    now,            \* the wall clock read by get_current_time()
    call,           \* the last method or handler called, with its arguments
    ret,            \* what that call returned
    conversations,  \* rows of table conversation_context, oldest first
    ALLOWED_USER_ID, \* config.ALLOWED_USER_ID, read from the environment at start
    by_title        \* the by-title call in progress, between its statements

vars == <<tasks, events, task_seq, event_seq, now, call, ret, conversations,
          ALLOWED_USER_ID, by_title>>

NONE == <<>>
Some(x) == <<x>>
IsSome(o) == o # NONE
Val(o) == o[1]

\* No by-title call is in progress.
Idle == [pc |-> "idle", op |-> "", title |-> <<>>, found |-> NONE,
         via |-> "", at |-> NONE]

----------------------------------------------------------------------------
(* Bounds of the model.                                                    *)

MaxTasks == 2       \* add_task is called at most this many times
MaxEvents == 2      \* add_event is called at most this many times
MaxTime == 2        \* the clock takes the values 1..MaxTime
MaxConversations == 2   \* add_conversation is called at most this many times

----------------------------------------------------------------------------
(* Text: Python's str.lower(), SQLite's LOWER(), LIKE and length().         *)

\* "E^" and "e^" stand for a cased letter outside ASCII (such as E-acute and
\* e-acute); "_" and "%" are the two characters LIKE gives a meaning to.
Chars == {"A", "a", "B", "b", "c", "_", "%", "E^", "e^"}

\* str.lower() of one character: Unicode-aware.
PyLowerChar(c) ==
    CASE c = "A" -> "a"
      [] c = "B" -> "b"
      [] c = "E^" -> "e^"
      [] OTHER -> c

\* SQLite's built-in LOWER() of one character: ASCII letters only.
SqlLowerChar(c) ==
    CASE c = "A" -> "a"
      [] c = "B" -> "b"
      [] OTHER -> c

PyLower(s) == [i \in 1..Len(s) |-> PyLowerChar(s[i])]

SqlLower(s) == [i \in 1..Len(s) |-> SqlLowerChar(s[i])]

\* SQLite's LIKE (no ESCAPE): "%" matches any run of characters, "_" any one
\* character, any other character itself, ASCII letters without regard to case.
RECURSIVE SqlLike(_, _)
SqlLike(pat, s) ==
    IF pat = <<>> THEN s = <<>>
    ELSE IF Head(pat) = "%"
         THEN \E k \in 0..Len(s) : SqlLike(Tail(pat), SubSeq(s, k + 1, Len(s)))
    ELSE IF s = <<>> THEN FALSE
    ELSE IF Head(pat) = "_" THEN SqlLike(Tail(pat), Tail(s))
    ELSE /\ SqlLowerChar(Head(pat)) = SqlLowerChar(Head(s))
         /\ SqlLike(Tail(pat), Tail(s))

\* The parameter f"%{title_lower}%" of the substring query.
LikePattern(title_lower) == <<"%">> \o title_lower \o <<"%">>

\* What the documentation of fuzzy_match_* promises: s contains q, letters
\* compared without regard to case.
ContainsIgnoreCase(s, q) ==
    \E k \in 0..(Len(s) - Len(q)) :
        PyLower(SubSeq(s, k + 1, k + Len(q))) = PyLower(q)

EqualsIgnoreCase(s, q) == PyLower(s) = PyLower(q)

----------------------------------------------------------------------------
(* Points in time.  A Python value for a time is an aware datetime object   *)
(* or ISO-8601 text; both carry a wall-clock reading and a UTC offset (in   *)
(* half hours behind UTC), and the TEXT columns hold only text.             *)

\* Offsets "-05:00" and "-06:00" of the user's time zone (America/Chicago), in
\* half hours behind UTC.
Offsets == {10, 12}

Text(wall, off) == [k |-> "str", wall |-> wall, off |-> off]
Datetime(wall, off) == [k |-> "datetime", wall |-> wall, off |-> off]

\* datetime.isoformat(): the text with the same wall clock and offset.
format_datetime_iso(dt) == Text(dt.wall, dt.off)

\* The instant a time value denotes (half hours, UTC).
Instant(t) == t.wall + t.off

\* get_current_time(): a reading of the clock, never before the last one; the
\* bound MaxTime caps it.
get_current_time == {Datetime(t, 12) : t \in now..MaxTime}

\* The isinstance(x, datetime) conversion applied to an optional argument.
ToColumn(o) ==
    IF IsSome(o) /\ Val(o).k = "datetime"
    THEN Some(format_datetime_iso(Val(o)))
    ELSE o

\* SQLite's comparison of two TEXT values (BINARY collation) on ISO-8601
\* text "<wall clock>-<offset>": the wall-clock digits first, then the offset.
TextLess(a, b) == a.wall < b.wall \/ (a.wall = b.wall /\ a.off < b.off)

TextLeq(a, b) == a = b \/ TextLess(a, b)

\* ORDER BY col ASC NULLS LAST on optional text: may row value a precede b?
AscNullsLast(a, b) ==
    IF a = NONE THEN b = NONE
    ELSE b = NONE \/ TextLeq(Val(a), Val(b))

\* ORDER BY col DESC on optional text (SQLite: NULL is the smallest value).
DescNullsLast(a, b) ==
    IF a = NONE THEN b = NONE
    ELSE b = NONE \/ TextLeq(Val(b), Val(a))

----------------------------------------------------------------------------
(* Python truthiness of the optional arguments ("if task_id:", "elif        *)
(* title:"): None, 0 and the empty string are false.                        *)

TruthyId(o) == IsSome(o) /\ Val(o) # 0

TruthyStr(o) == IsSome(o) /\ Val(o) # <<>>

----------------------------------------------------------------------------
(* Table tasks.                                                             *)

\* INSERT INTO tasks ... VALUES (?, ?, ?, ?, 'pending', ?): completed_at is
\* left to its default, NULL.
NewTaskRow(id, title, deadline, priority, description, created_at) ==
    [id |-> id, title |-> title, description |-> description,
     deadline |-> ToColumn(deadline), priority |-> priority,
     status |-> "pending", created_at |-> Some(created_at),
     completed_at |-> NONE]

NextTaskId_LargestStored ==
    IF DOMAIN tasks = {} THEN 1
    ELSE (CHOOSE i \in DOMAIN tasks : \A j \in DOMAIN tasks : j <= i) + 1

\* AUTOINCREMENT: one more than the largest id the table ever held.
NextTaskId == task_seq + 1

Insert(table, row) ==
    [i \in DOMAIN table \cup {row.id} |-> IF i = row.id THEN row ELSE table[i]]

\* DELETE FROM <table> WHERE id = ?
DeleteWhereId(table, id) == [i \in DOMAIN table \ {id} |-> table[i]]

\* UPDATE tasks SET status = 'completed', completed_at = ?
\* WHERE id = ? AND status = 'pending': the rows the statement matches.
CompleteMatches_AnyStatus(id) == {i \in DOMAIN tasks : i = id}

CompleteMatches(id) ==
    {i \in DOMAIN tasks : i = id /\ tasks[i].status = "pending"}

CompleteRows(id, completed_at) ==
    [i \in DOMAIN tasks |->
        IF i \in CompleteMatches(id)
        THEN [tasks[i] EXCEPT !.status = "completed",
                              !.completed_at = Some(completed_at)]
        ELSE tasks[i]]

\* The two WHERE conditions on title of fuzzy_match_*: LOWER(title) = ? or
\* LOWER(title) LIKE ?, with ? built from title.lower().
SqlTitleMatch(stored, title) ==
    \/ SqlLower(stored) = PyLower(title)
    \/ SqlLike(LikePattern(PyLower(title)), SqlLower(stored))

TaskExactRows_AnyStatus(title) ==
    {i \in DOMAIN tasks : SqlLower(tasks[i].title) = PyLower(title)}

\* fuzzy_match_task, first query: WHERE LOWER(title) = ? AND status = 'pending'
TaskExactRows(title) ==
    {i \in DOMAIN tasks :
        /\ SqlLower(tasks[i].title) = PyLower(title)
        /\ tasks[i].status = "pending"}

TaskLikeRows_ExactExcluded(title) ==
    {i \in DOMAIN tasks :
        /\ SqlLike(LikePattern(PyLower(title)), SqlLower(tasks[i].title))
        /\ SqlLower(tasks[i].title) # PyLower(title)
        /\ tasks[i].status = "pending"}

\* fuzzy_match_task, second query: WHERE LOWER(title) LIKE ? AND status = 'pending'
TaskLikeRows(title) ==
    {i \in DOMAIN tasks :
        /\ SqlLike(LikePattern(PyLower(title)), SqlLower(tasks[i].title))
        /\ tasks[i].status = "pending"}

\* ORDER BY CASE WHEN LOWER(title) = ? THEN 0 ELSE 1 END, length(title)
TaskRank(i, title) ==
    <<IF SqlLower(tasks[i].title) = PyLower(title) THEN 0 ELSE 1,
      Len(tasks[i].title)>>

RankLeq(r, s) == r[1] < s[1] \/ (r[1] = s[1] /\ r[2] <= s[2])

\* The ids fetchone() may return for fuzzy_match_task(title): a row of the
\* first query if it has one (it has no ORDER BY), else a first row of the
\* second in its order; the empty set when the method returns None.
fuzzy_match_task(title) ==
    IF TaskExactRows(title) # {} THEN TaskExactRows(title)
    ELSE {i \in TaskLikeRows(title) :
            \A j \in TaskLikeRows(title) :
                RankLeq(TaskRank(i, title), TaskRank(j, title))}

\* The outcomes of "x = await self.fuzzy_match_*(title)": a row id, or None.
Fetched(ids) == IF ids = {} THEN {NONE} ELSE {Some(i) : i \in ids}

\* Keyword arguments of update_task / update_event: each key of KwKeys is
\* absent (<<>>) or given with a value (<<v>>).
TaskKwKeys == {"title", "description", "deadline", "priority", "status",
               "completed_at", "id"}

NoTaskKw == [k \in TaskKwKeys |-> <<>>]

TaskAllowedFields_AnyColumn == TaskKwKeys

\* allowed_fields of update_task
TaskAllowedFields == {"title", "description", "deadline", "priority", "status"}

\* update_fields = {k: v for k, v in fields.items() if k in allowed_fields}
TaskUpdateFields(kw) == {k \in TaskKwKeys : kw[k] # <<>> /\ k \in TaskAllowedFields}

\* The value bound to column k: a datetime deadline is formatted first.
TaskBoundValue(k, kw) == IF k = "deadline" THEN ToColumn(kw[k][1]) ELSE kw[k][1]

UpdateTaskRows_EveryRow(id, kw) ==
    [i \in DOMAIN tasks |->
        [c \in DOMAIN tasks[i] |->
            IF c \in TaskUpdateFields(kw) THEN TaskBoundValue(c, kw)
            ELSE tasks[i][c]]]

\* UPDATE tasks SET <k = ?, ...> WHERE id = ?
UpdateTaskRows(id, kw) ==
    [i \in DOMAIN tasks |->
        IF i = id
        THEN [c \in DOMAIN tasks[i] |->
                IF c \in TaskUpdateFields(kw) THEN TaskBoundValue(c, kw)
                ELSE tasks[i][c]]
        ELSE tasks[i]]

\* The arrangements of a set of row ids in a sequence, each id once.
Arrangements(ids) ==
    {f \in [1..Cardinality(ids) -> ids] :
        \A i, j \in 1..Cardinality(ids) : i # j => f[i] # f[j]}

\* The sequences of rows a SELECT ... ORDER BY deadline ASC [NULLS LAST] may
\* return for the rows ids of tasks.
OrderedByDeadline(ids) ==
    {[i \in DOMAIN f |-> tasks[f[i]]] : f \in
        {g \in Arrangements(ids) :
            \A i, j \in DOMAIN g :
                i < j => AscNullsLast(tasks[g[i]].deadline,
                                      tasks[g[j]].deadline)}}

\* SELECT * FROM tasks WHERE status = 'pending' ORDER BY deadline ASC NULLS LAST
get_pending_tasks ==
    OrderedByDeadline({i \in DOMAIN tasks : tasks[i].status = "pending"})

\* SELECT * FROM tasks WHERE status = 'pending' AND deadline <= ?
\* ORDER BY deadline ASC   (a NULL deadline compares as NULL: not selected)
DueRows(date) ==
    {i \in DOMAIN tasks :
        /\ tasks[i].status = "pending"
        /\ tasks[i].deadline # NONE
        /\ TextLeq(Val(tasks[i].deadline), Val(ToColumn(Some(date))))}

get_tasks_due_by(date) == OrderedByDeadline(DueRows(date))

----------------------------------------------------------------------------
(* The task methods of class Database.                                      *)

AddTask(title, deadline, priority, description) ==
    /\ task_seq < MaxTasks
    /\ \E t \in get_current_time :
          /\ now' = t.wall
          /\ tasks' = Insert(tasks, NewTaskRow(NextTaskId, title, deadline,
                                 priority, description, format_datetime_iso(t)))
    /\ task_seq' = NextTaskId
    /\ ret' = NextTaskId
    /\ call' = [op |-> "add_task", title |-> title, deadline |-> deadline,
                priority |-> priority, description |-> description]
    /\ UNCHANGED <<events, event_seq, conversations, ALLOWED_USER_ID, by_title>>

GetTask(task_id) ==
    /\ ret' = IF task_id \in DOMAIN tasks THEN Some(tasks[task_id]) ELSE NONE
    /\ call' = [op |-> "get_task", task_id |-> task_id]
    /\ UNCHANGED <<tasks, events, task_seq, event_seq, now, conversations,
                   ALLOWED_USER_ID, by_title>>

GetPendingTasks ==
    /\ \E rows \in get_pending_tasks : ret' = rows
    /\ call' = [op |-> "get_pending_tasks"]
    /\ UNCHANGED <<tasks, events, task_seq, event_seq, now, conversations,
                   ALLOWED_USER_ID, by_title>>

GetTasksDueBy(date) ==
    /\ \E rows \in get_tasks_due_by(date) : ret' = rows
    /\ call' = [op |-> "get_tasks_due_by", date |-> date]
    /\ UNCHANGED <<tasks, events, task_seq, event_seq, now, conversations,
                   ALLOWED_USER_ID, by_title>>

FuzzyMatchTask(title) ==
    /\ \E t \in Fetched(fuzzy_match_task(title)) :
          ret' = IF IsSome(t) THEN Some(tasks[Val(t)]) ELSE NONE
    /\ call' = [op |-> "fuzzy_match_task", title |-> title]
    /\ UNCHANGED <<tasks, events, task_seq, event_seq, now, conversations,
                   ALLOWED_USER_ID, by_title>>

\* The id complete_task / delete_task hand to their statement: task_id if it
\* is truthy, else the fuzzy match of a truthy title; NONE when the method
\* returns False before any statement.
TaskTargets_RetriedByTitle(task_id, title) ==
    IF TruthyId(task_id) /\ Val(task_id) \in DOMAIN tasks THEN {task_id}
    ELSE IF TruthyStr(title) THEN Fetched(fuzzy_match_task(Val(title)))
    ELSE {NONE}

TaskTargets(task_id, title) ==
    IF TruthyId(task_id) THEN {task_id}
    ELSE IF TruthyStr(title) THEN Fetched(fuzzy_match_task(Val(title)))
    ELSE {NONE}

CompleteTask(task_id, title) ==
    /\ \E c \in get_current_time, t \in TaskTargets(task_id, title) :
          /\ now' = c.wall
          /\ IF IsSome(t)
             THEN /\ tasks' = CompleteRows(Val(t), format_datetime_iso(c))
                  /\ ret' = (Cardinality(CompleteMatches(Val(t))) > 0)
             ELSE /\ tasks' = tasks
                  /\ ret' = FALSE
    /\ call' = [op |-> "complete_task", task_id |-> task_id, title |-> title]
    /\ UNCHANGED <<events, task_seq, event_seq, conversations, ALLOWED_USER_ID, by_title>>

DeleteTask(task_id, title) ==
    /\ \E t \in TaskTargets(task_id, title) :
          IF IsSome(t)
          THEN /\ tasks' = DeleteWhereId(tasks, Val(t))
               /\ ret' = (Val(t) \in DOMAIN tasks)
          ELSE /\ tasks' = tasks
               /\ ret' = FALSE
    /\ call' = [op |-> "delete_task", task_id |-> task_id, title |-> title]
    /\ UNCHANGED <<events, task_seq, event_seq, now, conversations, ALLOWED_USER_ID, by_title>>

UpdateTask(task_id, kw) ==
    /\ IF TaskUpdateFields(kw) = {}
       THEN /\ tasks' = tasks
            /\ ret' = FALSE
       ELSE /\ tasks' = UpdateTaskRows(task_id, kw)
            /\ ret' = (task_id \in DOMAIN tasks)
    /\ call' = [op |-> "update_task", task_id |-> task_id, kw |-> kw]
    /\ UNCHANGED <<events, task_seq, event_seq, now, conversations, ALLOWED_USER_ID, by_title>>

----------------------------------------------------------------------------
(* Table events and the event methods of class Database.                    *)

\* INSERT INTO events (title, description, start_time, end_time, location,
\* created_at, source) VALUES (?, ?, ?, ?, ?, ?, ?)
NewEventRow_NoLocation(id, title, start_time, end_time, location, description, source, created_at) ==
    [id |-> id, title |-> title, description |-> description,
     start_time |-> ToColumn(start_time), end_time |-> ToColumn(end_time),
     location |-> NONE, created_at |-> Some(created_at),
     source |-> source]

NewEventRow(id, title, start_time, end_time, location, description, source, created_at) ==
    [id |-> id, title |-> title, description |-> description,
     start_time |-> ToColumn(start_time), end_time |-> ToColumn(end_time),
     location |-> location, created_at |-> Some(created_at),
     source |-> source]

NextEventId == event_seq + 1

\* fuzzy_match_event, first query: WHERE LOWER(title) = ?
EventExactRows(title) ==
    {i \in DOMAIN events : SqlLower(events[i].title) = PyLower(title)}

\* fuzzy_match_event, second query: WHERE LOWER(title) LIKE ?
EventLikeRows(title) ==
    {i \in DOMAIN events :
        SqlLike(LikePattern(PyLower(title)), SqlLower(events[i].title))}

\* ORDER BY CASE WHEN LOWER(title) = ? THEN 0 ELSE 1 END, start_time DESC:
\* may row i come before row j?
EventBefore(i, j, title) ==
    LET ci == IF SqlLower(events[i].title) = PyLower(title) THEN 0 ELSE 1
        cj == IF SqlLower(events[j].title) = PyLower(title) THEN 0 ELSE 1
    IN  ci < cj \/ (ci = cj /\ DescNullsLast(events[i].start_time,
                                             events[j].start_time))

\* The ids fetchone() may return for fuzzy_match_event(title).
fuzzy_match_event(title) ==
    IF EventExactRows(title) # {} THEN EventExactRows(title)
    ELSE {i \in EventLikeRows(title) :
            \A j \in EventLikeRows(title) : EventBefore(i, j, title)}

EventKwKeys == {"title", "description", "start_time", "end_time", "location",
                "source", "id"}

NoEventKw == [k \in EventKwKeys |-> <<>>]

EventAllowedFields_WithSource ==
    {"title", "description", "start_time", "end_time", "location", "source"}

\* allowed_fields of update_event
EventAllowedFields == {"title", "description", "start_time", "end_time",
                       "location"}

EventUpdateFields(kw) ==
    {k \in EventKwKeys : kw[k] # <<>> /\ k \in EventAllowedFields}

\* for time_field in ["start_time", "end_time"]: a datetime is formatted.
EventBoundValue(k, kw) ==
    IF k \in {"start_time", "end_time"} THEN ToColumn(kw[k][1]) ELSE kw[k][1]

\* UPDATE events SET <k = ?, ...> WHERE id = ?
UpdateEventRows(id, kw) ==
    [i \in DOMAIN events |->
        IF i = id
        THEN [c \in DOMAIN events[i] |->
                IF c \in EventUpdateFields(kw) THEN EventBoundValue(c, kw)
                ELSE events[i][c]]
        ELSE events[i]]

AddEvent(title, start_time, end_time, location, description, source) ==
    /\ event_seq < MaxEvents
    /\ \E t \in get_current_time :
          /\ now' = t.wall
          /\ events' = Insert(events,
                NewEventRow(NextEventId, title, start_time, end_time, location,
                            description, source, format_datetime_iso(t)))
    /\ event_seq' = NextEventId
    /\ ret' = NextEventId
    /\ call' = [op |-> "add_event", title |-> title, start_time |-> start_time,
                end_time |-> end_time, location |-> location,
                description |-> description, source |-> source]
    /\ UNCHANGED <<tasks, task_seq, conversations, ALLOWED_USER_ID, by_title>>

GetEvent(event_id) ==
    /\ ret' = IF event_id \in DOMAIN events THEN Some(events[event_id]) ELSE NONE
    /\ call' = [op |-> "get_event", event_id |-> event_id]
    /\ UNCHANGED <<tasks, events, task_seq, event_seq, now, conversations,
                   ALLOWED_USER_ID, by_title>>

FuzzyMatchEvent(title) ==
    /\ \E e \in Fetched(fuzzy_match_event(title)) :
          ret' = IF IsSome(e) THEN Some(events[Val(e)]) ELSE NONE
    /\ call' = [op |-> "fuzzy_match_event", title |-> title]
    /\ UNCHANGED <<tasks, events, task_seq, event_seq, now, conversations,
                   ALLOWED_USER_ID, by_title>>

EventTargets(event_id, title) ==
    IF TruthyId(event_id) THEN {event_id}
    ELSE IF TruthyStr(title) THEN Fetched(fuzzy_match_event(Val(title)))
    ELSE {NONE}

DeleteEvent(event_id, title) ==
    /\ \E e \in EventTargets(event_id, title) :
          IF IsSome(e)
          THEN /\ events' = DeleteWhereId(events, Val(e))
               /\ ret' = (Val(e) \in DOMAIN events)
          ELSE /\ events' = events
               /\ ret' = FALSE
    /\ call' = [op |-> "delete_event", event_id |-> event_id, title |-> title]
    /\ UNCHANGED <<tasks, task_seq, event_seq, now, conversations, ALLOWED_USER_ID, by_title>>

UpdateEvent(event_id, kw) ==
    /\ IF EventUpdateFields(kw) = {}
       THEN /\ events' = events
            /\ ret' = FALSE
       ELSE /\ events' = UpdateEventRows(event_id, kw)
            /\ ret' = (event_id \in DOMAIN events)
    /\ call' = [op |-> "update_event", event_id |-> event_id, kw |-> kw]
    /\ UNCHANGED <<tasks, task_seq, event_seq, now, conversations, ALLOWED_USER_ID, by_title>>

----------------------------------------------------------------------------
(* The store after init_db() on a new file: no rows.                        *)

Init ==
    /\ tasks = <<>>
    /\ events = <<>>
    /\ task_seq = 0
    /\ event_seq = 0
    /\ now = 1
    /\ call = [op |-> "init_db"]
    /\ ret = NONE
    /\ conversations = <<>>
    /\ ALLOWED_USER_ID = NONE
    /\ by_title = Idle

\* The same store when the clock already shows its last reading: every
\* timestamp written from then on is that reading.
InitLate ==
    /\ tasks = <<>>
    /\ events = <<>>
    /\ task_seq = 0
    /\ event_seq = 0
    /\ now = MaxTime
    /\ call = [op |-> "init_db"]
    /\ ret = NONE
    /\ conversations = <<>>
    /\ ALLOWED_USER_ID = NONE
    /\ by_title = Idle

\* Arguments the callers pass for "task_id: int | None" and "title: str | None".
TaskIdArgs == {NONE} \cup {Some(i) : i \in 0..MaxTasks}

EventIdArgs == {NONE} \cup {Some(i) : i \in 0..MaxEvents}

OptionOf(S) == {NONE} \cup {Some(x) : x \in S}

----------------------------------------------------------------------------
(* Task life cycle: add, complete, delete, update of status.                *)

LifeTitles == {<<"A", "b">>, <<"a", "b", "c">>}

LifeQueries == {<<>>, <<"a", "b">>, <<"c">>}

StatusKw == {[NoTaskKw EXCEPT !.status = <<"completed">>],
             [NoTaskKw EXCEPT !.status = <<"pending">>]}

NextLife ==
    \/ \E t \in LifeTitles : AddTask(t, NONE, "medium", NONE)
    \/ \E i \in TaskIdArgs, t \in OptionOf(LifeQueries) : CompleteTask(i, t)
    \/ \E i \in TaskIdArgs, t \in OptionOf(LifeQueries) : DeleteTask(i, t)
    \/ \E i \in 1..MaxTasks, kw \in StatusKw : UpdateTask(i, kw)

SpecLife == InitLate /\ [][NextLife]_vars

----------------------------------------------------------------------------
(* Claims on the task life cycle, checked under SpecLife.                   *)

\* C1: after any sequence of add_task, complete_task, delete_task and
\* update_task (status among the fields), every stored task has completed_at
\* non-null if and only if its status is 'completed'.
C1_CompletedAtIffCompleted ==
    \A i \in DOMAIN tasks :
        (tasks[i].completed_at # NONE) <=> (tasks[i].status = "completed")

\* A row of the table is the task the call was aimed at: by a truthy id, else
\* by a truthy title through fuzzy_match_task.
Aimed(i, c) ==
    IF TruthyId(c.task_id) THEN i = Val(c.task_id)
    ELSE TruthyStr(c.title) /\ i \in fuzzy_match_task(Val(c.title))

\* C2: complete_task returns true exactly when the task it is aimed at (by
\* id, or by title through fuzzy_match_task) is pending, and then that task
\* alone becomes completed with completed_at set to the clock reading; on a
\* task already completed, on an id or title matching no pending task, or with
\* neither argument, it returns false and leaves every task unchanged.
C2_CompleteTask ==
    [][call'.op = "complete_task" =>
        /\ ret' \in BOOLEAN
        /\ ret' = TRUE =>
             \E i \in DOMAIN tasks :
                /\ Aimed(i, call')
                /\ tasks[i].status = "pending"
                /\ DOMAIN tasks' = DOMAIN tasks
                /\ tasks'[i] = [tasks[i] EXCEPT
                                   !.status = "completed",
                                   !.completed_at = Some(Text(now', 12))]
                /\ \A j \in DOMAIN tasks \ {i} : tasks'[j] = tasks[j]
        /\ ret' = FALSE =>
             /\ tasks' = tasks
             /\ ~ \E i \in DOMAIN tasks :
                    Aimed(i, call') /\ tasks[i].status = "pending"
        /\ events' = events
    ]_vars

\* C2's case: complete_task called by title on a task that is already
\* completed, no other pending task matching, answers false.
C2_Witness ==
    /\ call.op = "complete_task"
    /\ ret = FALSE
    /\ ~ TruthyId(call.task_id)
    /\ TruthyStr(call.title)
    /\ \E i \in DOMAIN tasks :
          /\ tasks[i].status = "completed"
          /\ tasks[i].completed_at # NONE
          /\ EqualsIgnoreCase(tasks[i].title, Val(call.title))

\* The table after a DELETE that removed exactly the rows S.
TasksRemoved(S) ==
    /\ DOMAIN tasks' = DOMAIN tasks \ S
    /\ \A j \in DOMAIN tasks' : tasks'[j] = tasks[j]

\* C6 as stated: delete_task removes its target whatever its status, the
\* target given by id or by title, and returns false only when no stored task
\* corresponds to the id or title.
C6_DeleteTaskAnyStatus ==
    [][call'.op = "delete_task" =>
        LET Corresponds(i) ==
                IF TruthyId(call'.task_id) THEN i = Val(call'.task_id)
                ELSE /\ TruthyStr(call'.title)
                     /\ SqlTitleMatch(tasks[i].title, Val(call'.title))
        IN  /\ ret' = FALSE <=> ~ \E i \in DOMAIN tasks : Corresponds(i)
            /\ ret' = TRUE =>
                 \E i \in DOMAIN tasks : Corresponds(i) /\ TasksRemoved({i})
    ]_vars

\* C6 as amended: by a truthy id delete_task removes the task with that id
\* whatever its status and returns true iff there was one; by title (no
\* truthy id) it removes one pending task matching the title and returns
\* true, and returns false, removing nothing, when no pending task matches,
\* completed tasks being invisible to the title lookup; with neither argument
\* it returns false.
C6_DeleteTask ==
    [][call'.op = "delete_task" =>
        IF TruthyId(call'.task_id)
        THEN /\ ret' = (Val(call'.task_id) \in DOMAIN tasks)
             /\ TasksRemoved({Val(call'.task_id)} \cap DOMAIN tasks)
        ELSE IF TruthyStr(call'.title)
        THEN LET P == {i \in DOMAIN tasks :
                         /\ tasks[i].status = "pending"
                         /\ SqlTitleMatch(tasks[i].title, Val(call'.title))}
             IN  IF P = {}
                 THEN ret' = FALSE /\ tasks' = tasks
                 ELSE ret' = TRUE /\ \E i \in P : TasksRemoved({i})
        ELSE ret' = FALSE /\ tasks' = tasks
    ]_vars

\* C6's case: delete_task by the exact title of a stored, completed task
\* answers false and the task is still stored.
C6_Witness ==
    /\ call.op = "delete_task"
    /\ ret = FALSE
    /\ ~ TruthyId(call.task_id)
    /\ TruthyStr(call.title)
    /\ \E i \in DOMAIN tasks :
          /\ tasks[i].status = "completed"
          /\ EqualsIgnoreCase(tasks[i].title, Val(call.title))

----------------------------------------------------------------------------
(* Fuzzy title lookup of tasks.                                             *)

FuzzyTitles == {<<"A", "b">>, <<"a", "b", "c">>, <<"E^">>, <<"e^", "b">>}

FuzzyQueries == {<<>>, <<"a", "b">>, <<"A", "B">>, <<"b">>, <<"c", "c">>,
                 <<"a", "_">>, <<"%">>, <<"E^">>, <<"e^">>}

NextFuzzy ==
    \/ \E t \in FuzzyTitles : AddTask(t, NONE, "medium", NONE)
    \/ \E i \in 1..MaxTasks : CompleteTask(Some(i), NONE)
    \/ \E i \in 1..MaxTasks : DeleteTask(Some(i), NONE)
    \/ \E q \in FuzzyQueries : FuzzyMatchTask(q)

SpecFuzzy == InitLate /\ [][NextFuzzy]_vars

\* The pending tasks whose title contains the query, letters compared
\* without regard to case.
PendingContaining(q) ==
    {i \in DOMAIN tasks :
        /\ tasks[i].status = "pending"
        /\ ContainsIgnoreCase(tasks[i].title, q)}

\* C3: fuzzy_match_task returns a task only if it is pending and its title
\* contains the query as a case-insensitive substring, and returns absent
\* exactly when no pending task's title contains the query.
C3_FuzzyTaskContains ==
    call.op = "fuzzy_match_task" =>
        /\ ret = NONE <=> PendingContaining(call.title) = {}
        /\ ret # NONE =>
             /\ Val(ret).id \in PendingContaining(call.title)
             /\ tasks[Val(ret).id] = Val(ret)

\* C4: when several pending tasks contain the query, fuzzy_match_task returns
\* one whose title equals the query case-insensitively if there is one, and
\* otherwise one of minimal title length among the pending tasks containing
\* the query.
C4_FuzzyTaskRanking ==
    (call.op = "fuzzy_match_task"
        /\ Cardinality(PendingContaining(call.title)) >= 2) =>
        /\ ret # NONE
        /\ IF \E i \in PendingContaining(call.title) :
                 EqualsIgnoreCase(tasks[i].title, call.title)
           THEN EqualsIgnoreCase(Val(ret).title, call.title)
           ELSE /\ Val(ret).id \in PendingContaining(call.title)
                /\ \A j \in PendingContaining(call.title) :
                      Len(Val(ret).title) <= Len(tasks[j].title)

----------------------------------------------------------------------------
(* update_task and update_event with recognized and unrecognized fields.    *)

UpdateTaskKw ==
    {NoTaskKw,
     [NoTaskKw EXCEPT !.completed_at = <<Some(Text(2, 12))>>, !.id = <<2>>],
     [NoTaskKw EXCEPT !.title = <<<<"a", "b", "c">>>>],
     [NoTaskKw EXCEPT !.title = <<<<"a", "b", "c">>>>,
                      !.completed_at = <<Some(Text(2, 12))>>]}

UpdateEventKw ==
    {NoEventKw,
     [NoEventKw EXCEPT !.source = <<"gcal">>, !.id = <<2>>],
     [NoEventKw EXCEPT !.start_time = <<Some(Datetime(2, 10))>>],
     [NoEventKw EXCEPT !.start_time = <<Some(Datetime(2, 10))>>,
                       !.source = <<"gcal">>]}

NextUpdate ==
    \/ AddTask(<<"A", "b">>, NONE, "medium", NONE)
    \/ AddEvent(<<"A", "b">>, Some(Text(1, 12)), NONE, NONE, NONE, "bot")
    \/ \E i \in 0..MaxTasks, kw \in UpdateTaskKw : UpdateTask(i, kw)
    \/ \E i \in 0..MaxEvents, kw \in UpdateEventKw : UpdateEvent(i, kw)

SpecUpdate == InitLate /\ [][NextUpdate]_vars

\* C7: update_task and update_event called with no fields, or with only
\* fields outside their allow-list, return false and write nothing; a field
\* outside the allow-list given beside recognized ones is ignored: no column
\* other than the recognized fields given changes in any row, no row appears
\* or disappears, and the result is that of the recognized fields alone (a
\* row with the id exists).
C7_UpdateIgnoresUnrecognized ==
    [][/\ call'.op = "update_task" =>
            LET given == {k \in {"title", "description", "deadline",
                                 "priority", "status"} : call'.kw[k] # <<>>}
            IN  /\ given = {} => ret' = FALSE /\ tasks' = tasks
                /\ given # {} => ret' = (call'.task_id \in DOMAIN tasks)
                /\ DOMAIN tasks' = DOMAIN tasks
                /\ \A i \in DOMAIN tasks :
                      \A c \in DOMAIN tasks[i] \ given :
                          tasks'[i][c] = tasks[i][c]
                /\ events' = events
       /\ call'.op = "update_event" =>
            LET given == {k \in {"title", "description", "start_time",
                                 "end_time", "location"} : call'.kw[k] # <<>>}
            IN  /\ given = {} => ret' = FALSE /\ events' = events
                /\ given # {} => ret' = (call'.event_id \in DOMAIN events)
                /\ DOMAIN events' = DOMAIN events
                /\ \A i \in DOMAIN events :
                      \A c \in DOMAIN events[i] \ given :
                          events'[i][c] = events[i][c]
                /\ tasks' = tasks
    ]_vars

\* C7's case: update_task on a stored task with title (recognized) and
\* completed_at (not recognized) has written the title and not completed_at.
C7_Witness ==
    /\ call.op = "update_task"
    /\ call.task_id \in DOMAIN tasks
    /\ call.kw["completed_at"] # <<>>
    /\ call.kw["title"] # <<>>
    /\ ret = TRUE
    /\ tasks[call.task_id].title = call.kw["title"][1]
    /\ tasks[call.task_id].completed_at = NONE

----------------------------------------------------------------------------
(* Events: add, get, delete and the fuzzy title lookup.                     *)

EventTitles == {<<"A", "b">>, <<"a", "b", "c">>}

EventQueries == {<<"a", "b">>, <<"b">>, <<"a", "_">>, <<"c", "c">>}

\* 01:00 at -05:00 is the earlier instant and the greater text; 00:00 at
\* -06:00 the later instant and the smaller text.
EventStarts == {Some(Text(1, 10)), Some(Datetime(0, 12))}

EventEnds == {NONE, Some(Datetime(2, 12))}

EventLocations == {NONE, Some(<<"c">>)}

NextEvents ==
    \/ \E t \in EventTitles, s \in EventStarts, e \in EventEnds,
          l \in EventLocations : AddEvent(t, s, e, l, NONE, "bot")
    \/ \E i \in 0..MaxEvents : GetEvent(i)
    \/ \E i \in 1..MaxEvents : DeleteEvent(Some(i), NONE)
    \/ \E q \in EventQueries : FuzzyMatchEvent(q)

SpecEvents == InitLate /\ [][NextEvents]_vars

EventsContaining(q) ==
    {i \in DOMAIN events : ContainsIgnoreCase(events[i].title, q)}

\* Event e starts no earlier than event f (an event without start_time
\* starts before every other).
StartsNoEarlier(e, f) ==
    \/ f.start_time = NONE
    \/ /\ e.start_time # NONE
       /\ Instant(Val(e.start_time)) >= Instant(Val(f.start_time))

\* C5: fuzzy_match_event looks at every stored event; it returns one whose
\* title equals the query case-insensitively if there is one, and otherwise,
\* among the events whose title contains the query, one with the latest
\* start_time.
C5_FuzzyEventRanking ==
    call.op = "fuzzy_match_event" =>
        IF \E i \in DOMAIN events : EqualsIgnoreCase(events[i].title, call.title)
        THEN ret # NONE /\ EqualsIgnoreCase(Val(ret).title, call.title)
        ELSE IF EventsContaining(call.title) # {}
        THEN /\ ret # NONE
             /\ Val(ret).id \in EventsContaining(call.title)
             /\ \A j \in EventsContaining(call.title) :
                   StartsNoEarlier(Val(ret), events[j])
        ELSE ret = NONE

\* C10 as stated: get_event of the id add_event has just returned gives an
\* event whose title, start_time, end_time and location are the arguments
\* of add_event, unchanged; get_event of an id just deleted gives absent.
C10_RoundTripIdentical ==
    [][/\ (call.op = "add_event" /\ call'.op = "get_event"
              /\ call'.event_id = ret) =>
            /\ ret' # NONE
            /\ Val(ret').title = call.title
            /\ Val(ret').start_time = call.start_time
            /\ Val(ret').end_time = call.end_time
            /\ Val(ret').location = call.location
       /\ (call.op = "delete_event" /\ call'.op = "get_event"
              /\ call.event_id = Some(call'.event_id)) => ret' = NONE
    ]_vars

\* ISO-8601 text of an optional time argument, text itself unchanged.
AsIsoText(o) ==
    IF o = NONE THEN NONE
    ELSE Some([k |-> "str", wall |-> Val(o).wall, off |-> Val(o).off])

\* C10 as amended: title and location come back identical; start_time and
\* end_time come back as ISO-8601 text, identical when they were given as
\* text and the isoformat() text of the datetime object when given as one;
\* get_event of an id that was deleted, just now or earlier, gives absent.
C10_RoundTrip ==
    [][/\ (call.op = "add_event" /\ call'.op = "get_event"
              /\ call'.event_id = ret) =>
            /\ ret' # NONE
            /\ Val(ret').title = call.title
            /\ Val(ret').start_time = AsIsoText(call.start_time)
            /\ Val(ret').end_time = AsIsoText(call.end_time)
            /\ Val(ret').location = call.location
       /\ (call.op = "delete_event" /\ call'.op = "get_event"
              /\ call.event_id = Some(call'.event_id)) => ret' = NONE
       /\ (call'.op = "get_event" /\ call'.event_id \in 1..event_seq
              /\ call'.event_id \notin DOMAIN events) => ret' = NONE
       /\ call'.op = "add_event" => ret' \notin 1..event_seq
    ]_vars

\* C10's case: get_event has returned the event added last, which was given
\* an end time and a location.
C10_Witness ==
    /\ call.op = "get_event"
    /\ ret # NONE
    /\ Val(ret).id = event_seq
    /\ Val(ret).end_time # NONE
    /\ Val(ret).location # NONE

----------------------------------------------------------------------------
(* Tasks by deadline.                                                       *)

DueDeadlines == {NONE, Some(Text(1, 10)), Some(Text(0, 12)),
                 Some(Datetime(2, 12))}

DueCutoffs == {Text(0, 12), Datetime(1, 10), Text(2, 12)}

NextDue ==
    \/ \E d \in DueDeadlines : AddTask(<<"A", "b">>, d, "medium", NONE)
    \/ \E i \in 1..MaxTasks : CompleteTask(Some(i), NONE)
    \/ GetPendingTasks
    \/ \E d \in DueCutoffs : GetTasksDueBy(d)

SpecDue == InitLate /\ [][NextDue]_vars

\* The sequence of rows lists exactly the tasks S, each once.
ListsExactly(rows, S) ==
    /\ Len(rows) = Cardinality(S)
    /\ {rows[k].id : k \in DOMAIN rows} = S
    /\ \A k \in DOMAIN rows : rows[k] = tasks[rows[k].id]

\* Ascending by the instant of the deadline, tasks without one last.
AscendingByDeadline(rows) ==
    \A i, j \in DOMAIN rows :
        i < j =>
            \/ rows[j].deadline = NONE
            \/ /\ rows[i].deadline # NONE
               /\ Instant(Val(rows[i].deadline)) <= Instant(Val(rows[j].deadline))

\* C8: get_pending_tasks returns exactly the pending tasks, ordered by
\* deadline ascending, every task without a deadline after all those with one.
C8_PendingByDeadline ==
    call.op = "get_pending_tasks" =>
        /\ ListsExactly(ret, {i \in DOMAIN tasks : tasks[i].status = "pending"})
        /\ AscendingByDeadline(ret)

\* C9: get_tasks_due_by(cutoff) returns exactly the pending tasks that have a
\* deadline at or before cutoff, in ascending deadline order.
C9_DueByCutoff ==
    call.op = "get_tasks_due_by" =>
        /\ ListsExactly(ret,
              {i \in DOMAIN tasks :
                  /\ tasks[i].status = "pending"
                  /\ tasks[i].deadline # NONE
                  /\ Instant(Val(tasks[i].deadline)) <= Instant(call.date)})
        /\ AscendingByDeadline(ret)

----------------------------------------------------------------------------
(* The Action Dispatcher: TelegramHandler._execute_action                   *)
(* (src/src/telegram_handler.py).  A response of the classifier is a record *)
(* [action, params_type, params, message]; params_type tells a mapping      *)
(* ("dict") from a bag that is none ("null", "list").  In a mapping each    *)
(* key is absent (<<>>) or present with its value (<<v>>), the value being  *)
(* JSON null (NONE) or Some(x).                                             *)

ActionType == {"ADD_TASK", "ADD_EVENT", "COMPLETE_TASK", "DELETE_TASK",
               "DELETE_EVENT", "MODIFY_TASK", "MODIFY_EVENT", "QUERY"}

ParamKeys == {"title", "deadline", "priority", "description", "start_time",
              "end_time", "location", "task_id", "task_title", "id",
              "event_id", "event_title", "new_title", "new_deadline",
              "new_priority", "new_start_time", "new_end_time",
              "new_location"}

EmptyParams == [k \in ParamKeys |-> <<>>]

ClassifierMessage == "Got it."

\* AgentResponse(action, params, message) with a mapping for params.
Response(kind, bag) ==
    [action |-> kind, params_type |-> "dict", params |-> bag,
     message |-> ClassifierMessage]

\* A response whose "params" is JSON null: response.params is None.
NullBagResponse(kind) ==
    [action |-> kind, params_type |-> "null", params |-> EmptyParams,
     message |-> ClassifierMessage]

\* params.get(k)
Get(params, k) == IF params[k] = <<>> THEN NONE ELSE params[k][1]

\* params.get(k, default)
GetDefault(params, k, default) ==
    IF params[k] = <<>> THEN Some(default) ELSE params[k][1]

UntitledTask == <<"U", "n", "t", "i", "t", "l", "e", "d", " ", "t", "a", "s", "k">>

UntitledEvent == <<"U", "n", "t", "i", "t", "l", "e", "d", " ", "e", "v", "e", "n", "t">>

CompleteFallback == "Couldn't find that task to mark complete. Can you be more specific?"

DeleteTaskFallback == "Couldn't find that task to delete. Can you be more specific?"

DeleteEventFallback == "Couldn't find that event to delete. Can you be more specific?"

ModifyTaskFallback == "Couldn't find that task to modify. Can you be more specific?"

ModifyEventFallback == "Couldn't find that event to modify. Can you be more specific?"

UpdateTaskFallback == "Couldn't update that task. Can you try again?"

UpdateEventFallback == "Couldn't update that event. Can you try again?"

GenericError == "Something went wrong processing that. Try again?"

\* Python truthiness of an optional str held as a TLA+ string (a priority).
TruthyName(o) == IsSome(o) /\ Val(o) # ""

\* Python truthiness of an optional ISO-8601 text: the texts of the model are
\* never empty.
TruthyTime(o) == IsSome(o)

\* What one run of _execute_action leaves behind: the store, the clock, the
\* message returned, the Database methods called in order, and whether the
\* "except Exception" clause was entered.
Outcome(message, calls, raised) ==
    [tasks |-> tasks, events |-> events, task_seq |-> task_seq,
     event_seq |-> event_seq, now |-> now, message |-> message,
     calls |-> calls, raised |-> raised]

\* An except clause that returns the message of the COMPLETE_TASK fallback.
Caught_OtherMessage(calls) == Outcome(CompleteFallback, calls, TRUE)

\* except Exception as e: ... return "Something went wrong ..."
Caught(calls) == Outcome(GenericError, calls, TRUE)

\* return response.message
Replied(response, calls) == Outcome(response.message, calls, FALSE)

\* ADD_TASK.  The INSERT fails on a NULL title (title TEXT NOT NULL), and on a
\* storage fault; fault is the number of the Database call that raises, 0 for
\* none.
DispatchAddTask(response, fault) ==
    LET params == response.params
        title == GetDefault(params, "title", UntitledTask)
        deadline == Get(params, "deadline")
        priority == GetDefault(params, "priority", "medium")
        description == Get(params, "description")
    IN  {IF fault = 1 \/ title = NONE
         THEN [Caught(<<"add_task">>) EXCEPT !.now = t.wall]
         ELSE [Replied(response, <<"add_task">>) EXCEPT
                  !.now = t.wall,
                  !.tasks = Insert(tasks,
                      NewTaskRow(NextTaskId, Val(title), deadline,
                                 Val(priority), description,
                                 format_datetime_iso(t))),
                  !.task_seq = NextTaskId]
         : t \in get_current_time}

\* ADD_EVENT: add_event leaves source to its default, "bot".
DispatchAddEvent(response, fault) ==
    LET params == response.params
        title == GetDefault(params, "title", UntitledEvent)
    IN  {IF fault = 1 \/ title = NONE
         THEN [Caught(<<"add_event">>) EXCEPT !.now = t.wall]
         ELSE [Replied(response, <<"add_event">>) EXCEPT
                  !.now = t.wall,
                  !.events = Insert(events,
                      NewEventRow(NextEventId, Val(title),
                                  Get(params, "start_time"),
                                  Get(params, "end_time"),
                                  Get(params, "location"),
                                  Get(params, "description"), "bot",
                                  format_datetime_iso(t))),
                  !.event_seq = NextEventId]
         : t \in get_current_time}

\* COMPLETE_TASK: complete_task(task_id=params.get("task_id"),
\* title=params.get("task_title")), then "if not success".
DispatchCompleteTask(response, fault) ==
    LET task_id == Get(response.params, "task_id")
        title == Get(response.params, "task_title")
    IN  {IF fault = 1
         THEN [Caught(<<"complete_task">>) EXCEPT !.now = c.wall]
         ELSE IF IsSome(t) /\ CompleteMatches(Val(t)) # {}
         THEN [Replied(response, <<"complete_task">>) EXCEPT
                  !.now = c.wall,
                  !.tasks = CompleteRows(Val(t), format_datetime_iso(c))]
         ELSE [Outcome(CompleteFallback, <<"complete_task">>, FALSE) EXCEPT
                  !.now = c.wall]
         : c \in get_current_time, t \in TaskTargets(task_id, title)}

\* DELETE_TASK: delete_task(task_id=params.get("id"), title=params.get("title"))
DispatchDeleteTask(response, fault) ==
    LET task_id == Get(response.params, "id")
        title == Get(response.params, "title")
    IN  {IF fault = 1
         THEN Caught(<<"delete_task">>)
         ELSE IF IsSome(t) /\ Val(t) \in DOMAIN tasks
         THEN [Replied(response, <<"delete_task">>) EXCEPT
                  !.tasks = DeleteWhereId(tasks, Val(t))]
         ELSE Outcome(DeleteTaskFallback, <<"delete_task">>, FALSE)
         : t \in TaskTargets(task_id, title)}

\* DELETE_EVENT without its "if not success" test.
DispatchDeleteEvent_NoFallback(response, fault) ==
    LET event_id == Get(response.params, "id")
        title == Get(response.params, "title")
    IN  {IF fault = 1
         THEN Caught(<<"delete_event">>)
         ELSE IF IsSome(e) /\ Val(e) \in DOMAIN events
         THEN [Replied(response, <<"delete_event">>) EXCEPT
                  !.events = DeleteWhereId(events, Val(e))]
         ELSE Replied(response, <<"delete_event">>)
         : e \in EventTargets(event_id, title)}

\* DELETE_EVENT: delete_event(event_id=params.get("id"), title=params.get("title"))
DispatchDeleteEvent(response, fault) ==
    LET event_id == Get(response.params, "id")
        title == Get(response.params, "title")
    IN  {IF fault = 1
         THEN Caught(<<"delete_event">>)
         ELSE IF IsSome(e) /\ Val(e) \in DOMAIN events
         THEN [Replied(response, <<"delete_event">>) EXCEPT
                  !.events = DeleteWhereId(events, Val(e))]
         ELSE Outcome(DeleteEventFallback, <<"delete_event">>, FALSE)
         : e \in EventTargets(event_id, title)}

\* update_fields of MODIFY_TASK with params.get("new_priority", "medium").
ModifyTaskFields_DefaultPriority(params) ==
    [NoTaskKw EXCEPT
        !.title = IF TruthyStr(Get(params, "new_title"))
                  THEN <<Val(Get(params, "new_title"))>> ELSE <<>>,
        !.deadline = IF TruthyTime(Get(params, "new_deadline"))
                     THEN <<Get(params, "new_deadline")>> ELSE <<>>,
        !.priority = IF TruthyName(Get(params, "new_priority"))
                     THEN <<Val(Get(params, "new_priority"))>>
                     ELSE <<"medium">>]

\* MODIFY_TASK: the target is params.get("task_id"), else the fuzzy match of a
\* truthy params["task_title"]; update_fields holds the truthy ones of
\* new_title, new_deadline, new_priority.
ModifyTaskFields(params) ==
    [NoTaskKw EXCEPT
        !.title = IF TruthyStr(Get(params, "new_title"))
                  THEN <<Val(Get(params, "new_title"))>> ELSE <<>>,
        !.deadline = IF TruthyTime(Get(params, "new_deadline"))
                     THEN <<Get(params, "new_deadline")>> ELSE <<>>,
        !.priority = IF TruthyName(Get(params, "new_priority"))
                     THEN <<Val(Get(params, "new_priority"))>> ELSE <<>>]

DispatchModifyTask(response, fault) ==
    LET params == response.params
        given == Get(params, "task_id")
        lookup == ~ TruthyId(given) /\ TruthyStr(Get(params, "task_title"))
        found == IF lookup
                 THEN Fetched(fuzzy_match_task(Val(Get(params, "task_title"))))
                 ELSE {NONE}
        pre == IF lookup THEN <<"fuzzy_match_task">> ELSE <<>>
        update_fields == ModifyTaskFields(params)
    IN  IF lookup /\ fault = 1 THEN {Caught(pre)}
        ELSE {LET task_id == IF IsSome(task) THEN task ELSE given
              IN  IF ~ TruthyId(task_id)
                  THEN Outcome(ModifyTaskFallback, pre, FALSE)
                  ELSE IF update_fields = NoTaskKw
                  THEN Replied(response, pre)
                  ELSE IF fault = Len(pre) + 1
                  THEN Caught(pre \o <<"update_task">>)
                  ELSE IF /\ TaskUpdateFields(update_fields) # {}
                          /\ Val(task_id) \in DOMAIN tasks
                  THEN [Replied(response, pre \o <<"update_task">>) EXCEPT
                           !.tasks = UpdateTaskRows(Val(task_id), update_fields)]
                  ELSE Outcome(UpdateTaskFallback, pre \o <<"update_task">>,
                               FALSE)
              : task \in found}

\* update_fields of MODIFY_EVENT without new_end_time.
ModifyEventFields_NoEndTime(params) ==
    [NoEventKw EXCEPT
        !.title = IF TruthyStr(Get(params, "new_title"))
                  THEN <<Val(Get(params, "new_title"))>> ELSE <<>>,
        !.start_time = IF TruthyTime(Get(params, "new_start_time"))
                       THEN <<Get(params, "new_start_time")>> ELSE <<>>,
        !.location = IF TruthyStr(Get(params, "new_location"))
                     THEN <<Get(params, "new_location")>> ELSE <<>>]

\* MODIFY_EVENT: the same with event_id, event_title and new_title,
\* new_start_time, new_end_time, new_location.
ModifyEventFields(params) ==
    [NoEventKw EXCEPT
        !.title = IF TruthyStr(Get(params, "new_title"))
                  THEN <<Val(Get(params, "new_title"))>> ELSE <<>>,
        !.start_time = IF TruthyTime(Get(params, "new_start_time"))
                       THEN <<Get(params, "new_start_time")>> ELSE <<>>,
        !.end_time = IF TruthyTime(Get(params, "new_end_time"))
                     THEN <<Get(params, "new_end_time")>> ELSE <<>>,
        !.location = IF TruthyStr(Get(params, "new_location"))
                     THEN <<Get(params, "new_location")>> ELSE <<>>]

DispatchModifyEvent(response, fault) ==
    LET params == response.params
        given == Get(params, "event_id")
        lookup == ~ TruthyId(given) /\ TruthyStr(Get(params, "event_title"))
        found == IF lookup
                 THEN Fetched(fuzzy_match_event(Val(Get(params, "event_title"))))
                 ELSE {NONE}
        pre == IF lookup THEN <<"fuzzy_match_event">> ELSE <<>>
        update_fields == ModifyEventFields(params)
    IN  IF lookup /\ fault = 1 THEN {Caught(pre)}
        ELSE {LET event_id == IF IsSome(event) THEN event ELSE given
              IN  IF ~ TruthyId(event_id)
                  THEN Outcome(ModifyEventFallback, pre, FALSE)
                  ELSE IF update_fields = NoEventKw
                  THEN Replied(response, pre)
                  ELSE IF fault = Len(pre) + 1
                  THEN Caught(pre \o <<"update_event">>)
                  ELSE IF /\ EventUpdateFields(update_fields) # {}
                          /\ Val(event_id) \in DOMAIN events
                  THEN [Replied(response, pre \o <<"update_event">>) EXCEPT
                           !.events = UpdateEventRows(Val(event_id),
                                                      update_fields)]
                  ELSE Outcome(UpdateEventFallback, pre \o <<"update_event">>,
                               FALSE)
              : event \in found}

\* _execute_action reading the bag before it looks at the action.
execute_action_BagFirst(response, fault) ==
    IF response.params_type # "dict" THEN {Caught(<<>>)}
    ELSE IF response.action = "QUERY" THEN {Replied(response, <<>>)}
    ELSE {Replied(response, <<>>)}

\* _execute_action: the outcomes of one run.  QUERY touches neither the bag
\* nor the store; in every other branch the first params.get of a bag that is
\* no mapping raises AttributeError inside the try.
execute_action(response, fault) ==
    IF response.action = "QUERY" THEN {Replied(response, <<>>)}
    ELSE IF response.params_type # "dict" THEN {Caught(<<>>)}
    ELSE CASE response.action = "ADD_TASK" -> DispatchAddTask(response, fault)
           [] response.action = "ADD_EVENT" -> DispatchAddEvent(response, fault)
           [] response.action = "COMPLETE_TASK" ->
                  DispatchCompleteTask(response, fault)
           [] response.action = "DELETE_TASK" ->
                  DispatchDeleteTask(response, fault)
           [] response.action = "DELETE_EVENT" ->
                  DispatchDeleteEvent(response, fault)
           [] response.action = "MODIFY_TASK" ->
                  DispatchModifyTask(response, fault)
           [] response.action = "MODIFY_EVENT" ->
                  DispatchModifyEvent(response, fault)

\* The bound on the rows ever inserted, applied to the adding actions.
WithinBounds(response) ==
    /\ response.action = "ADD_TASK" => task_seq < MaxTasks
    /\ response.action = "ADD_EVENT" => event_seq < MaxEvents

\* await self._execute_action(response); ret is the message returned, beside
\* it the Database methods the run called and whether it caught an exception.
ExecuteAction(response, fault) ==
    /\ WithinBounds(response)
    /\ \E o \in execute_action(response, fault) :
          /\ tasks' = o.tasks
          /\ events' = o.events
          /\ task_seq' = o.task_seq
          /\ event_seq' = o.event_seq
          /\ now' = o.now
          /\ ret' = [message |-> o.message, calls |-> o.calls,
                     raised |-> o.raised]
    /\ call' = [op |-> "_execute_action", response |-> response,
                fault |-> fault]
    /\ UNCHANGED <<conversations, ALLOWED_USER_ID, by_title>>

----------------------------------------------------------------------------
(* Responses of the classifier handed to the dispatcher.                    *)

\* Bags of ADD_TASK: every key absent; title null; title, deadline and
\* priority given, description null; title and description given, deadline and
\* priority absent.
AddTaskParams ==
    {EmptyParams,
     [EmptyParams EXCEPT !.title = <<NONE>>],
     [EmptyParams EXCEPT !.title = <<Some(<<"A", "b">>)>>,
                         !.deadline = <<Some(Text(1, 12))>>,
                         !.priority = <<Some("high")>>,
                         !.description = <<NONE>>],
     [EmptyParams EXCEPT !.title = <<Some(<<"A", "b">>)>>,
                         !.deadline = <<NONE>>,
                         !.description = <<Some(<<"c">>)>>]}

AddEventParams ==
    {EmptyParams,
     [EmptyParams EXCEPT !.title = <<NONE>>,
                         !.start_time = <<Some(Text(1, 12))>>],
     [EmptyParams EXCEPT !.title = <<Some(<<"A", "b">>)>>,
                         !.start_time = <<Some(Text(1, 12))>>,
                         !.end_time = <<NONE>>,
                         !.location = <<Some(<<"c">>)>>],
     [EmptyParams EXCEPT !.title = <<Some(<<"A", "b">>)>>,
                         !.start_time = <<Some(Text(1, 10))>>,
                         !.end_time = <<Some(Text(2, 12))>>]}

----------------------------------------------------------------------------
(* Dispatch of ADD_TASK and ADD_EVENT, no storage fault.                    *)

NextAdd ==
    \/ \E p \in AddTaskParams : ExecuteAction(Response("ADD_TASK", p), 0)
    \/ \E p \in AddEventParams : ExecuteAction(Response("ADD_EVENT", p), 0)

SpecAdd == InitLate /\ [][NextAdd]_vars

\* The table after an INSERT of exactly one row, with the next id.
OneRowAdded(before, after, id) ==
    /\ id \notin DOMAIN before
    /\ DOMAIN after = DOMAIN before \cup {id}
    /\ \A j \in DOMAIN before : after[j] = before[j]

\* C11: dispatching ADD_TASK with any bag (title, deadline, priority,
\* description each present, absent or null) and no storage fault adds
\* exactly one task, pending, titled as the bag says or 'Untitled task' when
\* the bag has no title, with the bag's priority or medium, and returns the
\* classifier's message; ADD_EVENT likewise adds exactly one event, titled
\* 'Untitled event' by default.
C11_AddAlwaysSucceeds ==
    [][(call'.op = "_execute_action" /\ call'.fault = 0
            /\ call'.response.params_type = "dict") =>
        LET p == call'.response.params
        IN  /\ call'.response.action = "ADD_TASK" =>
                 /\ ret'.message = call'.response.message
                 /\ OneRowAdded(tasks, tasks', task_seq + 1)
                 /\ events' = events
                 /\ tasks'[task_seq + 1].status = "pending"
                 /\ IF p["title"] = <<>>
                    THEN tasks'[task_seq + 1].title = UntitledTask
                    ELSE Some(tasks'[task_seq + 1].title) = p["title"][1]
                 /\ IF p["priority"] = <<>>
                    THEN tasks'[task_seq + 1].priority = "medium"
                    ELSE Some(tasks'[task_seq + 1].priority) = p["priority"][1]
            /\ call'.response.action = "ADD_EVENT" =>
                 /\ ret'.message = call'.response.message
                 /\ OneRowAdded(events, events', event_seq + 1)
                 /\ tasks' = tasks
                 /\ IF p["title"] = <<>>
                    THEN events'[event_seq + 1].title = UntitledEvent
                    ELSE Some(events'[event_seq + 1].title) = p["title"][1]
    ]_vars

----------------------------------------------------------------------------
(* Dispatch of COMPLETE_TASK, DELETE_TASK and DELETE_EVENT, no storage      *)
(* fault.                                                                   *)

\* Bags naming a target under the keys idk and titlek: nothing; id 1; id 2;
\* id null with an exact title; a title contained in a longer one; a title
\* contained in none; id 0 with a title.
TargetParams(idk, titlek) ==
    {EmptyParams,
     [EmptyParams EXCEPT ![idk] = <<Some(1)>>],
     [EmptyParams EXCEPT ![idk] = <<Some(2)>>],
     [EmptyParams EXCEPT ![idk] = <<NONE>>,
                         ![titlek] = <<Some(<<"a", "b">>)>>],
     [EmptyParams EXCEPT ![titlek] = <<Some(<<"c">>)>>],
     [EmptyParams EXCEPT ![titlek] = <<Some(<<"c", "c">>)>>],
     [EmptyParams EXCEPT ![idk] = <<Some(0)>>,
                         ![titlek] = <<Some(<<"a", "b">>)>>]}

ResolveTitles == {<<"A", "b">>, <<"a", "b", "c">>}

NextResolve ==
    \/ \E t \in ResolveTitles :
          ExecuteAction(Response("ADD_TASK",
              [EmptyParams EXCEPT !.title = <<Some(t)>>]), 0)
    \/ \E t \in ResolveTitles :
          ExecuteAction(Response("ADD_EVENT",
              [EmptyParams EXCEPT !.title = <<Some(t)>>,
                                  !.start_time = <<Some(Text(1, 12))>>]), 0)
    \/ \E p \in TargetParams("task_id", "task_title") :
          ExecuteAction(Response("COMPLETE_TASK", p), 0)
    \/ \E p \in TargetParams("id", "title") :
          ExecuteAction(Response("DELETE_TASK", p), 0)
    \/ \E p \in TargetParams("id", "title") :
          ExecuteAction(Response("DELETE_EVENT", p), 0)

SpecResolve == InitLate /\ [][NextResolve]_vars

\* Exactly one row of the table went from pending to completed, nothing else
\* changed.
OneCompleted(before, after) ==
    /\ DOMAIN after = DOMAIN before
    /\ \E i \in DOMAIN before :
          /\ before[i].status = "pending"
          /\ after[i].status = "completed"
          /\ \A j \in DOMAIN before \ {i} : after[j] = before[j]

\* Exactly one row of the table was removed, nothing else changed.
OneRemoved(before, after) ==
    \E i \in DOMAIN before :
        /\ DOMAIN after = DOMAIN before \ {i}
        /\ \A j \in DOMAIN after : after[j] = before[j]

\* C12: dispatching COMPLETE_TASK, DELETE_TASK or DELETE_EVENT returns the
\* classifier's message if and only if the store operation succeeded (exactly
\* one task went from pending to completed, or exactly one record was
\* removed); otherwise it returns the fallback of that action and the store is
\* unchanged.
C12_ResolveOrFallback ==
    [][(call'.op = "_execute_action" /\ call'.fault = 0
            /\ call'.response.params_type = "dict") =>
        /\ call'.response.action = "COMPLETE_TASK" =>
             /\ ret'.message = call'.response.message
                    <=> OneCompleted(tasks, tasks')
             /\ ~ OneCompleted(tasks, tasks') =>
                    ret'.message = CompleteFallback /\ tasks' = tasks
             /\ events' = events
        /\ call'.response.action = "DELETE_TASK" =>
             /\ ret'.message = call'.response.message
                    <=> OneRemoved(tasks, tasks')
             /\ ~ OneRemoved(tasks, tasks') =>
                    ret'.message = DeleteTaskFallback /\ tasks' = tasks
             /\ events' = events
        /\ call'.response.action = "DELETE_EVENT" =>
             /\ ret'.message = call'.response.message
                    <=> OneRemoved(events, events')
             /\ ~ OneRemoved(events, events') =>
                    ret'.message = DeleteEventFallback /\ events' = events
             /\ tasks' = tasks
    ]_vars

\* C12's case: DELETE_EVENT by title alone has removed an event and returned
\* the classifier's message while another event is still stored.
C12_Witness ==
    /\ call.op = "_execute_action"
    /\ call.response.action = "DELETE_EVENT"
    /\ ~ TruthyId(Get(call.response.params, "id"))
    /\ TruthyStr(Get(call.response.params, "title"))
    /\ ret.message = call.response.message
    /\ Cardinality(DOMAIN events) = 1
    /\ event_seq = 2

----------------------------------------------------------------------------
(* Dispatch of MODIFY_TASK and MODIFY_EVENT, no storage fault.              *)

\* Targets of a MODIFY_*: those of TargetParams and a title holding the
\* character "_".
ModifyTargets(idk, titlek) ==
    TargetParams(idk, titlek) \cup
        {[EmptyParams EXCEPT ![titlek] = <<Some(<<"a", "_">>)>>]}

\* The new_* part of a MODIFY_TASK bag: nothing; title, deadline and priority;
\* an empty title, a null deadline and a priority; nulls only.
ModifyTaskParams ==
    {[t EXCEPT !.new_title = u[1], !.new_deadline = u[2], !.new_priority = u[3]]
        : t \in ModifyTargets("task_id", "task_title"),
          u \in {<< <<>>, <<>>, <<>> >>,
                 << <<Some(<<"a", "b", "c">>)>>, <<Some(Text(1, 12))>>,
                    <<Some("high")>> >>,
                 << <<Some(<<>>)>>, <<NONE>>, <<Some("high")>> >>,
                 << <<NONE>>, <<NONE>>, <<>> >>}}

\* The new_* part of a MODIFY_EVENT bag: nothing; all four; a null title, an
\* empty location and an end time; nulls only.
ModifyEventParams ==
    {[t EXCEPT !.new_title = u[1], !.new_start_time = u[2],
               !.new_end_time = u[3], !.new_location = u[4]]
        : t \in ModifyTargets("event_id", "event_title"),
          u \in {<< <<>>, <<>>, <<>>, <<>> >>,
                 << <<Some(<<"a", "b", "c">>)>>, <<Some(Text(1, 10))>>,
                    <<Some(Text(2, 10))>>, <<Some(<<"c">>)>> >>,
                 << <<NONE>>, <<>>, <<Some(Text(2, 10))>>, <<Some(<<>>)>> >>,
                 << <<>>, <<NONE>>, <<>>, <<NONE>> >>}}

NextModify ==
    \/ ExecuteAction(Response("ADD_TASK",
          [EmptyParams EXCEPT !.title = <<Some(<<"A", "b">>)>>]), 0)
    \/ ExecuteAction(Response("ADD_EVENT",
          [EmptyParams EXCEPT !.title = <<Some(<<"A", "b">>)>>,
                              !.start_time = <<Some(Text(1, 12))>>]), 0)
    \/ \E p \in ModifyTaskParams : ExecuteAction(Response("MODIFY_TASK", p), 0)
    \/ \E p \in ModifyEventParams : ExecuteAction(Response("MODIFY_EVENT", p), 0)

SpecModify == InitLate /\ [][NextModify]_vars

\* The bag gives no id under key k: the key is absent or null.
NoId(params, k) == Get(params, k) = NONE

\* The bag's value under key k, a title, is absent, null or empty.
NoTitle(params, k) == ~ TruthyStr(Get(params, k))

\* C13: dispatching MODIFY_TASK (MODIFY_EVENT) with no id and a title that is
\* absent or contained in the title of no pending task (no event) returns the
\* fixed 'Couldn't find that task (event) to modify' message, whatever the
\* classifier's message, and leaves the store unchanged.
C13_ModifyUnresolved ==
    [][(call'.op = "_execute_action" /\ call'.fault = 0
            /\ call'.response.params_type = "dict") =>
        LET p == call'.response.params
        IN  /\ (/\ call'.response.action = "MODIFY_TASK"
                /\ NoId(p, "task_id")
                /\ \/ NoTitle(p, "task_title")
                   \/ PendingContaining(Val(Get(p, "task_title"))) = {}) =>
                 /\ ret'.message = ModifyTaskFallback
                 /\ tasks' = tasks /\ events' = events
            /\ (/\ call'.response.action = "MODIFY_EVENT"
                /\ NoId(p, "event_id")
                /\ \/ NoTitle(p, "event_title")
                   \/ EventsContaining(Val(Get(p, "event_title"))) = {}) =>
                 /\ ret'.message = ModifyEventFallback
                 /\ tasks' = tasks /\ events' = events
    ]_vars

\* The ids the dispatcher may take for the target of a MODIFY_TASK
\* (MODIFY_EVENT): the id given, else those its title lookup may return.
TaskTargetIds(params) ==
    IF TruthyId(Get(params, "task_id")) THEN {Val(Get(params, "task_id"))}
    ELSE IF TruthyStr(Get(params, "task_title"))
    THEN fuzzy_match_task(Val(Get(params, "task_title")))
    ELSE {}

EventTargetIds(params) ==
    IF TruthyId(Get(params, "event_id")) THEN {Val(Get(params, "event_id"))}
    ELSE IF TruthyStr(Get(params, "event_title"))
    THEN fuzzy_match_event(Val(Get(params, "event_title")))
    ELSE {}

\* The elements of a sequence of method names.
Called(calls) == {calls[i] : i \in DOMAIN calls}

\* C14: dispatching MODIFY_TASK or MODIFY_EVENT with a resolved target and
\* none of the new_* parameters present (each absent or null) calls neither
\* update_task nor update_event, leaves the store unchanged and returns the
\* classifier's message.
C14_ModifyNothingGiven ==
    [][(call'.op = "_execute_action" /\ call'.fault = 0
            /\ call'.response.params_type = "dict") =>
        LET p == call'.response.params
        IN  /\ (/\ call'.response.action = "MODIFY_TASK"
                /\ TaskTargetIds(p) # {}
                /\ \A k \in {"new_title", "new_deadline", "new_priority"} :
                      Get(p, k) = NONE) =>
                 /\ Called(ret'.calls) \cap {"update_task", "update_event"} = {}
                 /\ tasks' = tasks /\ events' = events
                 /\ ret'.message = call'.response.message
            /\ (/\ call'.response.action = "MODIFY_EVENT"
                /\ EventTargetIds(p) # {}
                /\ \A k \in {"new_title", "new_start_time", "new_end_time",
                             "new_location"} : Get(p, k) = NONE) =>
                 /\ Called(ret'.calls) \cap {"update_task", "update_event"} = {}
                 /\ tasks' = tasks /\ events' = events
                 /\ ret'.message = call'.response.message
    ]_vars

\* C14's case: MODIFY_TASK naming its target by title, found by the lookup,
\* with no new_* key, has returned the classifier's message.
C14_Witness ==
    /\ call.op = "_execute_action"
    /\ call.response.action = "MODIFY_TASK"
    /\ Get(call.response.params, "task_id") = NONE
    /\ TruthyStr(Get(call.response.params, "task_title"))
    /\ \A k \in {"new_title", "new_deadline", "new_priority"} :
          call.response.params[k] = <<>>
    /\ ret.calls = <<"fuzzy_match_task">>
    /\ ret.message = call.response.message
    /\ DOMAIN tasks # {}

\* A task row with title, deadline and priority replaced by the bag's new_*
\* values, for the keys of the set given.
TaskWith(row, params, given) ==
    [row EXCEPT
        !.title = IF "new_title" \in given
                  THEN Val(Get(params, "new_title")) ELSE @,
        !.deadline = IF "new_deadline" \in given
                     THEN Get(params, "new_deadline") ELSE @,
        !.priority = IF "new_priority" \in given
                     THEN Val(Get(params, "new_priority")) ELSE @]

EventWith(row, params, given) ==
    [row EXCEPT
        !.title = IF "new_title" \in given
                  THEN Val(Get(params, "new_title")) ELSE @,
        !.start_time = IF "new_start_time" \in given
                       THEN Get(params, "new_start_time") ELSE @,
        !.end_time = IF "new_end_time" \in given
                     THEN Get(params, "new_end_time") ELSE @,
        !.location = IF "new_location" \in given
                     THEN Get(params, "new_location") ELSE @]

\* The table after an update of row id alone to the row new.
OnlyRowChanged(before, after, id, new) ==
    /\ DOMAIN after = DOMAIN before
    /\ after[id] = new
    /\ \A j \in DOMAIN before \ {id} : after[j] = before[j]

\* A modification of the target by the fields that count as given: applied to
\* the stored row with the classifier's message, or, when no row has the
\* target id, nothing changed and the 'Couldn't update' message.
ModifiedBy(given) ==
    LET p == call'.response.params
    IN  /\ call'.response.action = "MODIFY_TASK" =>
             /\ events' = events
             /\ \E id \in TaskTargetIds(p) :
                   IF id \in DOMAIN tasks
                   THEN /\ OnlyRowChanged(tasks, tasks', id,
                                          TaskWith(tasks[id], p, given))
                        /\ ret'.message = call'.response.message
                   ELSE /\ tasks' = tasks
                        /\ ret'.message = UpdateTaskFallback
        /\ call'.response.action = "MODIFY_EVENT" =>
             /\ tasks' = tasks
             /\ \E id \in EventTargetIds(p) :
                   IF id \in DOMAIN events
                   THEN /\ OnlyRowChanged(events, events', id,
                                          EventWith(events[id], p, given))
                        /\ ret'.message = call'.response.message
                   ELSE /\ events' = events
                        /\ ret'.message = UpdateEventFallback

\* The new_* keys of the action dispatched.
NewKeys(action) ==
    IF action = "MODIFY_TASK" THEN {"new_title", "new_deadline", "new_priority"}
    ELSE {"new_title", "new_start_time", "new_end_time", "new_location"}

\* A MODIFY_* dispatched on a mapping without storage fault, its target
\* resolved.
ModifyResolved ==
    /\ call'.op = "_execute_action"
    /\ call'.fault = 0
    /\ call'.response.params_type = "dict"
    /\ \/ /\ call'.response.action = "MODIFY_TASK"
          /\ TaskTargetIds(call'.response.params) # {}
       \/ /\ call'.response.action = "MODIFY_EVENT"
          /\ EventTargetIds(call'.response.params) # {}

\* C15 as stated: with a target id and at least one of the new_* parameters
\* present (given with a value that is not null), MODIFY_TASK sets exactly
\* the present ones of title, deadline, priority on that task and returns the
\* classifier's message, and returns the 'Couldn't update that task' message
\* exactly when no row has the id; MODIFY_EVENT the same with title,
\* start_time, end_time, location.
C15_ModifyAppliesPresent ==
    [][LET present == {k \in NewKeys(call'.response.action) :
                          Get(call'.response.params, k) # NONE}
       IN  (ModifyResolved /\ present # {}) => ModifiedBy(present)
    ]_vars

\* C15 as amended: the update set holds the new_* parameters given with a
\* value that is neither null nor empty; when it is not empty exactly those
\* fields are set on the target and the classifier's message is returned, or
\* the 'Couldn't update' message exactly when no row has the target id.
C15_ModifyAppliesNonEmpty ==
    [][LET p == call'.response.params
           nonempty ==
               {k \in NewKeys(call'.response.action) :
                   IF k \in {"new_title", "new_location"}
                   THEN TruthyStr(Get(p, k))
                   ELSE IF k = "new_priority" THEN TruthyName(Get(p, k))
                   ELSE TruthyTime(Get(p, k))}
       IN  (ModifyResolved /\ nonempty # {}) => ModifiedBy(nonempty)
    ]_vars

\* C15's case: MODIFY_TASK with an empty new_title and a new_priority on a
\* stored task has set the priority and left the title.
C15_Witness ==
    /\ call.op = "_execute_action"
    /\ call.response.action = "MODIFY_TASK"
    /\ Get(call.response.params, "new_title") = Some(<<>>)
    /\ Get(call.response.params, "new_priority") = Some("high")
    /\ ret.message = call.response.message
    /\ ret.calls = <<"update_task">>
    /\ \E i \in DOMAIN tasks :
          /\ Some(i) = Get(call.response.params, "task_id")
          /\ tasks[i].priority = "high"
          /\ tasks[i].title # <<>>

----------------------------------------------------------------------------
(* Dispatch of every action kind, with storage faults and with bags that    *)
(* are no mapping.                                                          *)

\* The number of the Database call of one dispatch that raises: none, the
\* first, the second.
StoreFaults == {0, 1, 2}

DispatchTitle == <<"A", "b">>

\* One or two bags for each action kind.
DispatchResponses ==
    {Response("ADD_TASK", [EmptyParams EXCEPT !.title = <<Some(DispatchTitle)>>]),
     Response("ADD_TASK", [EmptyParams EXCEPT !.title = <<NONE>>]),
     Response("ADD_EVENT", [EmptyParams EXCEPT !.title = <<Some(DispatchTitle)>>]),
     Response("ADD_EVENT", [EmptyParams EXCEPT !.title = <<NONE>>]),
     Response("COMPLETE_TASK",
         [EmptyParams EXCEPT !.task_title = <<Some(DispatchTitle)>>]),
     Response("DELETE_TASK", [EmptyParams EXCEPT !.id = <<Some(1)>>]),
     Response("DELETE_EVENT",
         [EmptyParams EXCEPT !.title = <<Some(DispatchTitle)>>]),
     Response("MODIFY_TASK",
         [EmptyParams EXCEPT !.task_title = <<Some(DispatchTitle)>>,
                             !.new_priority = <<Some("high")>>]),
     Response("MODIFY_EVENT",
         [EmptyParams EXCEPT !.event_title = <<Some(DispatchTitle)>>,
                             !.new_location = <<Some(<<"c">>)>>]),
     Response("QUERY", EmptyParams),
     Response("QUERY",
         [EmptyParams EXCEPT !.title = <<Some(DispatchTitle)>>,
                             !.id = <<Some(1)>>,
                             !.new_priority = <<Some("high")>>])}
    \cup {NullBagResponse(a) : a \in ActionType}

NextDispatch ==
    \E r \in DispatchResponses, f \in StoreFaults : ExecuteAction(r, f)

SpecDispatch == InitLate /\ [][NextDispatch]_vars

\* C16: dispatching QUERY, with any bag (a mapping with any keys, or no
\* mapping), changes neither tasks nor events, calls no Database method and
\* returns the classifier's message verbatim.
C16_QueryNoMutation ==
    [][(call'.op = "_execute_action" /\ call'.response.action = "QUERY") =>
        /\ tasks' = tasks
        /\ events' = events
        /\ task_seq' = task_seq
        /\ event_seq' = event_seq
        /\ ret'.calls = <<>>
        /\ ret'.message = call'.response.message
    ]_vars

\* C16's case: QUERY with a bag that is no mapping, on a store holding a task
\* and an event, has returned the classifier's message.
C16_Witness ==
    /\ call.op = "_execute_action"
    /\ call.response.action = "QUERY"
    /\ call.response.params_type = "null"
    /\ ret.message = ClassifierMessage
    /\ DOMAIN tasks # {}
    /\ DOMAIN events # {}

\* A step of the dispatch raises: a params.get on a bag that is no mapping,
\* an INSERT of a NULL title, or the Database call a storage fault hits.
StepRaises(c, r) ==
    /\ c.response.action # "QUERY"
    /\ \/ c.response.params_type # "dict"
       \/ c.fault \in 1..Len(r.calls)
       \/ /\ c.response.action \in {"ADD_TASK", "ADD_EVENT"}
          /\ c.response.params["title"] = <<NONE>>

\* C17: for every action kind and every bag, a null bag included, when a step
\* of the dispatch raises, _execute_action returns the one generic
\* 'Something went wrong processing that. Try again?' message, the exception
\* having been caught; it returns a message in every case.
C17_FaultsCaught ==
    [][call'.op = "_execute_action" =>
        /\ StepRaises(call', ret') =>
              ret'.message = GenericError /\ ret'.raised
        /\ ret'.message \in {call'.response.message, GenericError,
                             CompleteFallback, DeleteTaskFallback,
                             DeleteEventFallback, ModifyTaskFallback,
                             ModifyEventFallback, UpdateTaskFallback,
                             UpdateEventFallback}
    ]_vars

\* C17's case: a storage fault has hit the update_task of a MODIFY_TASK
\* after its title lookup succeeded, and the generic message came back.
C17_Witness ==
    /\ call.op = "_execute_action"
    /\ call.response.action = "MODIFY_TASK"
    /\ call.fault = 2
    /\ ret.calls = <<"fuzzy_match_task", "update_task">>
    /\ ret.message = GenericError

----------------------------------------------------------------------------
(* The handlers of TelegramHandler: /start, /help, /today, /week, /tasks    *)
(* and free text.  After a handler ret holds the texts it sent with         *)
(* reply_text, the calls it made to the Database, the calendar and the      *)
(* classifier in order, and whether an exception left the handler.          *)

Refusal == "Sorry, this bot is configured for private use only."

Welcome == "Hey! I'm Dharvis, your personal task and calendar assistant."

HelpMessage == "Dharvis - Task & Calendar Assistant"

\* The texts built by the briefings and the task list, by their first line.
TodayBriefing == "Today (...):"

WeekOverview == "This week (...):"

NoPendingTasks == "No pending tasks!"

PendingTasksList == "Pending tasks:"

\* _is_authorized(user_id)
is_authorized(user_id) ==
    IF ALLOWED_USER_ID = NONE THEN TRUE
    ELSE user_id = Val(ALLOWED_USER_ID)

\* The handler returned after sending the texts sent.
Handled(sent, calls) == [sent |-> sent, calls |-> calls, escaped |-> FALSE]

\* An exception left the handler after the calls made, nothing sent.
Escaped(calls) == [sent |-> <<>>, calls |-> calls, escaped |-> TRUE]

\* "if self.calendar and self.calendar.is_available(): ... await
\* self.calendar.<read>()": the read is made when the calendar is there; its
\* own faults end in [] inside CalendarService.
CalendarRead(calendar, read) == IF calendar THEN <<read>> ELSE <<>>

StartCommand(user_id) ==
    /\ ret' = IF ~ is_authorized(user_id) THEN Handled(<<Refusal>>, <<>>)
              ELSE Handled(<<Welcome>>, <<>>)
    /\ call' = [op |-> "start_command", user_id |-> user_id]
    /\ UNCHANGED <<tasks, events, task_seq, event_seq, now, conversations,
                   ALLOWED_USER_ID, by_title>>

HelpCommand(user_id) ==
    /\ ret' = IF ~ is_authorized(user_id) THEN Handled(<<>>, <<>>)
              ELSE Handled(<<HelpMessage>>, <<>>)
    /\ call' = [op |-> "help_command", user_id |-> user_id]
    /\ UNCHANGED <<tasks, events, task_seq, event_seq, now, conversations,
                   ALLOWED_USER_ID, by_title>>

\* /today: _send_daily_briefing reads the events of the day, the calendar,
\* the tasks due and the pending tasks, then replies; a storage fault at the
\* first read leaves the handler.
TodayCommand(user_id, fault, calendar) ==
    /\ ret' = IF ~ is_authorized(user_id) THEN Handled(<<>>, <<>>)
              ELSE IF fault THEN Escaped(<<"get_events_between">>)
              ELSE Handled(<<TodayBriefing>>,
                       <<"get_events_between">>
                       \o CalendarRead(calendar, "calendar.get_today_events")
                       \o <<"get_tasks_due_by", "get_pending_tasks">>)
    /\ call' = [op |-> "today_command", user_id |-> user_id, fault |-> fault,
                calendar |-> calendar]
    /\ UNCHANGED <<tasks, events, task_seq, event_seq, now, conversations,
                   ALLOWED_USER_ID, by_title>>

\* /week: _send_week_overview
WeekCommand(user_id, fault, calendar) ==
    /\ ret' = IF ~ is_authorized(user_id) THEN Handled(<<>>, <<>>)
              ELSE IF fault THEN Escaped(<<"get_events_between">>)
              ELSE Handled(<<WeekOverview>>,
                       <<"get_events_between">>
                       \o CalendarRead(calendar, "calendar.get_events_between")
                       \o <<"get_tasks_due_by">>)
    /\ call' = [op |-> "week_command", user_id |-> user_id, fault |-> fault,
                calendar |-> calendar]
    /\ UNCHANGED <<tasks, events, task_seq, event_seq, now, conversations,
                   ALLOWED_USER_ID, by_title>>

\* /tasks
TasksCommand(user_id, fault) ==
    /\ ret' = IF ~ is_authorized(user_id) THEN Handled(<<>>, <<>>)
              ELSE IF fault THEN Escaped(<<"get_pending_tasks">>)
              ELSE IF \A i \in DOMAIN tasks : tasks[i].status # "pending"
              THEN Handled(<<NoPendingTasks>>, <<"get_pending_tasks">>)
              ELSE Handled(<<PendingTasksList>>, <<"get_pending_tasks">>)
    /\ call' = [op |-> "tasks_command", user_id |-> user_id, fault |-> fault]
    /\ UNCHANGED <<tasks, events, task_seq, event_seq, now, conversations,
                   ALLOWED_USER_ID, by_title>>

add_conversation_Dropped(log, user_message, bot_response, dt) == log

\* Database.add_conversation: one row (user_message, bot_response,
\* timestamp) is inserted, the timestamp being the reading dt of the clock
\* as text.
add_conversation(log, user_message, bot_response, dt) ==
    Append(log, [user_message |-> user_message,
                 bot_response |-> bot_response,
                 timestamp |-> format_datetime_iso(dt)])

\* Free text: message_handler.  faults names the steps a storage fault hits:
\* "context" the reads that gather the context, "dispatch" the first Database
\* call of _execute_action, "log" add_conversation.  response is what
\* agent.process_message returns, which catches its own faults.
MessageHandler(user_id, text, response, faults, calendar) ==
    /\ Len(conversations) < MaxConversations
    /\ WithinBounds(response)
    /\ call' = [op |-> "message_handler", user_id |-> user_id, text |-> text,
                response |-> response, faults |-> faults,
                calendar |-> calendar]
    /\ UNCHANGED <<ALLOWED_USER_ID, by_title>>
    /\ IF ~ is_authorized(user_id)
       THEN /\ ret' = Handled(<<Refusal>>, <<>>)
            /\ UNCHANGED <<tasks, events, task_seq, event_seq, now,
                           conversations>>
       ELSE IF text = ""
       THEN /\ ret' = Handled(<<>>, <<>>)
            /\ UNCHANGED <<tasks, events, task_seq, event_seq, now,
                           conversations>>
       ELSE IF "context" \in faults
       THEN /\ ret' = Escaped(<<"get_pending_tasks">>)
            /\ UNCHANGED <<tasks, events, task_seq, event_seq, now,
                           conversations>>
       ELSE \E o \in execute_action(response,
                         IF "dispatch" \in faults THEN 1 ELSE 0) :
              LET calls == <<"get_pending_tasks", "get_events_between">>
                           \o CalendarRead(calendar,
                                           "calendar.get_upcoming_events")
                           \o <<"agent.process_message">> \o o.calls
                           \o <<"add_conversation">>
              IN  /\ tasks' = o.tasks
                  /\ events' = o.events
                  /\ task_seq' = o.task_seq
                  /\ event_seq' = o.event_seq
                  /\ \E t \in o.now..MaxTime :
                        /\ now' = t
                        /\ IF "log" \in faults
                           THEN /\ conversations' = conversations
                                /\ ret' = Escaped(calls)
                           ELSE /\ conversations' = add_conversation(
                                      conversations, text, o.message,
                                      Datetime(t, 12))
                                /\ ret' = Handled(<<o.message>>, calls)

\* The process after start: empty store, the clock at its last reading,
\* ALLOWED_USER_ID unset or set to user 1.
InitBot ==
    /\ tasks = <<>>
    /\ events = <<>>
    /\ task_seq = 0
    /\ event_seq = 0
    /\ now = MaxTime
    /\ call = [op |-> "init_db"]
    /\ ret = NONE
    /\ conversations = <<>>
    /\ ALLOWED_USER_ID \in {NONE, Some(1)}
    /\ by_title = Idle

Users == {1, 2}

HandlerResponses ==
    {Response("ADD_TASK", [EmptyParams EXCEPT !.title = <<Some(DispatchTitle)>>]),
     Response("COMPLETE_TASK",
         [EmptyParams EXCEPT !.task_title = <<Some(DispatchTitle)>>]),
     Response("QUERY", EmptyParams)}

HandlerFaults == {{}, {"context"}, {"dispatch"}, {"log"}, {"dispatch", "log"}}

NextHandler ==
    \/ \E u \in Users, r \in HandlerResponses, f \in HandlerFaults :
          MessageHandler(u, "hi", r, f, TRUE)
    \/ \E u \in Users, r \in HandlerResponses :
          MessageHandler(u, "hi", r, {}, FALSE)
    \/ \E u \in Users : MessageHandler(u, "", Response("QUERY", EmptyParams),
                                       {}, TRUE)
    \/ \E u \in Users : StartCommand(u)
    \/ \E u \in Users : HelpCommand(u)
    \/ \E u \in Users, f \in BOOLEAN, c \in BOOLEAN : TodayCommand(u, f, c)
    \/ \E u \in Users, f \in BOOLEAN, c \in BOOLEAN : WeekCommand(u, f, c)
    \/ \E u \in Users, f \in BOOLEAN : TasksCommand(u, f)

SpecHandler == InitBot /\ [][NextHandler]_vars

----------------------------------------------------------------------------
\* C18: an authorized, non-empty text message whose handler reaches the
\* dispatch and whose add_conversation call goes through appends exactly one
\* entry to the conversation log, holding the user's text and the very text
\* sent to the user, whatever the dispatch did: success, fallback, or the
\* generic error after a storage fault.  No message ever appends more than
\* one entry or changes an earlier one.
C18_LoggedOncePerMessage ==
    [][call'.op = "message_handler" =>
          /\ Len(conversations') <= Len(conversations) + 1
          /\ SubSeq(conversations', 1, Len(conversations)) = conversations
          /\ (/\ is_authorized(call'.user_id)
              /\ call'.text # ""
              /\ call'.faults \cap {"context", "log"} = {})
             => /\ Len(conversations') = Len(conversations) + 1
                /\ Len(ret'.sent) = 1
                /\ LET entry == conversations'[Len(conversations')]
                   IN  /\ entry.user_message = call'.text
                       /\ entry.bot_response = ret'.sent[1]]_vars

\* A storage fault hit the dispatch of a COMPLETE_TASK: the generic error is
\* what was sent and what was logged.
C18_Witness ==
    /\ call.op = "message_handler"
    /\ call.faults = {"dispatch"}
    /\ call.response.action = "COMPLETE_TASK"
    /\ ret.sent = <<GenericError>>
    /\ Len(conversations) = 2
    /\ conversations[2].bot_response = GenericError
    /\ conversations[2].user_message = "hi"

\* C19: every non-empty text message is answered with one text: no fault in
\* the context reads, the classification, the dispatch or the logging leaves
\* message_handler or keeps the reply from being sent.
C19_AlwaysReplied ==
    (call.op = "message_handler" /\ call.text # "")
        => (~ ret.escaped /\ Len(ret.sent) = 1)

\* C20: with an allowed user id configured, a command or a text from any
\* other user reads and writes nothing in the store, calls neither the
\* classifier nor the calendar, and is answered with the fixed refusal.
C20_UnauthorizedRefused ==
    [][(/\ ALLOWED_USER_ID # NONE
        /\ call'.op \in {"start_command", "help_command", "today_command",
                         "week_command", "tasks_command", "message_handler"}
        /\ call'.user_id # Val(ALLOWED_USER_ID))
       => /\ UNCHANGED <<tasks, events, task_seq, event_seq, conversations>>
          /\ ret'.calls = <<>>
          /\ ~ ret'.escaped
          /\ ret'.sent = <<Refusal>>]_vars

----------------------------------------------------------------------------
(***************************************************************************)
(* The classifier: ClaudeAgent.process_message and _parse_response.         *)
(* A text is the sequence of its lines (text.split("\n")); a message is a   *)
(* text.  json.loads is the table Documents: the lines it lists are the     *)
(* JSON documents, every other line is not JSON.                            *)
(***************************************************************************)

Apology == <<"Sorry, I'm having trouble processing that right now. Try again in a moment?">>

DefaultMessage == <<"I processed your request.">>

\* A JSON object with the keys "action", "params", "message": each absent
\* (<<>>) or present (<<v>>), v being JSON null (NONE) or Some(x).
JsonObject(action, params, message) ==
    [type |-> "object", action |-> action, params |-> params,
     message |-> message]

\* Any JSON value that is not an object: a number, a string, an array, null.
JsonOther(type) ==
    [type |-> type, action |-> <<>>, params |-> <<>>, message |-> <<>>]

GotIt == <<Some(<<ClassifierMessage>>)>>

TitleBag == [EmptyParams EXCEPT !.title = <<Some(<<"A", "b">>)>>]

TaskTitleBag == [EmptyParams EXCEPT !.task_title = <<Some(<<"A", "b">>)>>]

\* json.loads on one line of text.
Documents ==
    {[text |-> "{\"action\": \"ADD_TASK\", \"params\": {\"title\": \"Ab\"}, \"message\": \"Got it.\"}",
      value |-> JsonObject(<<Some("ADD_TASK")>>, <<Some(TitleBag)>>, GotIt)],
     [text |-> "{\"action\": \"ADD_EVENT\", \"params\": {\"title\": \"Ab\"}, \"message\": \"Got it.\"}",
      value |-> JsonObject(<<Some("ADD_EVENT")>>, <<Some(TitleBag)>>, GotIt)],
     [text |-> "{\"action\": \"COMPLETE_TASK\", \"params\": {\"task_title\": \"Ab\"}, \"message\": \"Got it.\"}",
      value |-> JsonObject(<<Some("COMPLETE_TASK")>>, <<Some(TaskTitleBag)>>, GotIt)],
     [text |-> "{\"action\": \"DELETE_TASK\", \"params\": {\"task_title\": \"Ab\"}, \"message\": \"Got it.\"}",
      value |-> JsonObject(<<Some("DELETE_TASK")>>, <<Some(TaskTitleBag)>>, GotIt)],
     [text |-> "{\"action\": \"DELETE_EVENT\", \"params\": null, \"message\": \"Got it.\"}",
      value |-> JsonObject(<<Some("DELETE_EVENT")>>, <<NONE>>, GotIt)],
     [text |-> "{\"action\": \"MODIFY_TASK\", \"params\": {\"task_title\": \"Ab\"}}",
      value |-> JsonObject(<<Some("MODIFY_TASK")>>, <<Some(TaskTitleBag)>>, <<>>)],
     [text |-> "{\"action\": \"MODIFY_EVENT\", \"message\": \"Got it.\"}",
      value |-> JsonObject(<<Some("MODIFY_EVENT")>>, <<>>, GotIt)],
     [text |-> "{\"action\": \"QUERY\", \"params\": {}, \"message\": \"Got it.\"}",
      value |-> JsonObject(<<Some("QUERY")>>, <<Some(EmptyParams)>>, GotIt)],
     [text |-> "{\"action\": \"UNKNOWN_ACTION\", \"params\": {\"title\": \"Ab\"}, \"message\": \"Got it.\"}",
      value |-> JsonObject(<<Some("UNKNOWN_ACTION")>>, <<Some(TitleBag)>>, GotIt)],
     [text |-> "{\"action\": \"add_task\", \"params\": {\"title\": \"Ab\"}}",
      value |-> JsonObject(<<Some("add_task")>>, <<Some(TitleBag)>>, <<>>)],
     [text |-> "{\"action\": null, \"message\": \"Got it.\"}",
      value |-> JsonObject(<<NONE>>, <<>>, GotIt)],
     [text |-> "{\"params\": {\"title\": \"Ab\"}, \"message\": \"Got it.\"}",
      value |-> JsonObject(<<>>, <<Some(TitleBag)>>, GotIt)],
     [text |-> "{}", value |-> JsonObject(<<>>, <<>>, <<>>)],
     [text |-> "42", value |-> JsonOther("number")],
     [text |-> "\"Got it.\"", value |-> JsonOther("string")],
     [text |-> "[]", value |-> JsonOther("array")],
     [text |-> "null", value |-> JsonOther("null")]}

DocumentTexts == {d.text : d \in Documents}

\* A line of whitespace only.
IsBlank(line) == line \in {"", " "}

\* raw_response.strip(): the whitespace at both ends goes.
Strip(lines) ==
    LET kept == {i \in DOMAIN lines : ~ IsBlank(lines[i])}
    IN  IF kept = {} THEN <<>>
        ELSE LET first == CHOOSE i \in kept : \A j \in kept : i <= j
                 last == CHOOSE i \in kept : \A j \in kept : j <= i
             IN  SubSeq(lines, first, last)

\* The two lines that open or close a code block: three backquotes, alone
\* or followed by "json" (a string here cannot hold a backquote).
Fence == "<fence>"

FenceJson == "<fence>json"

\* line.startswith(<fence>)
StartsWithFence(line) == line \in {Fence, FenceJson}

\* The loop over lines of _parse_response: what lies between the first line
\* that opens a code block and the next line that starts with a fence.
RECURSIVE JsonLines(_, _, _, _)
JsonLines(lines, i, in_json, json_lines) ==
    IF i > Len(lines) THEN json_lines
    ELSE IF StartsWithFence(lines[i]) /\ ~ in_json
         THEN JsonLines(lines, i + 1, TRUE, json_lines)
    ELSE IF StartsWithFence(lines[i]) /\ in_json THEN json_lines
    ELSE IF in_json
         THEN JsonLines(lines, i + 1, TRUE, Append(json_lines, lines[i]))
    ELSE JsonLines(lines, i + 1, FALSE, json_lines)

\* response_text of _parse_response, the text handed to json.loads.
ResponseText(raw_response) ==
    LET response_text == Strip(raw_response)
    IN  IF response_text # <<>> /\ StartsWithFence(response_text[1])
        THEN JsonLines(response_text, 1, FALSE, <<>>)
        ELSE response_text

\* json.loads(text): text is JSON when it is one document between
\* whitespace; NONE stands for json.JSONDecodeError.
json_loads(lines) ==
    LET content == SelectSeq(lines, LAMBDA line : ~ IsBlank(line))
    IN  IF Len(content) = 1 /\ content[1] \in DocumentTexts
        THEN Some((CHOOSE d \in Documents : d.text = content[1]).value)
        ELSE NONE

\* AgentResponse(action, params, message, raw_response)
AgentResponse(action, params_type, params, message, raw_response) ==
    [raised |-> FALSE, action |-> action, params_type |-> params_type,
     params |-> params, message |-> message, raw_response |-> raw_response]

\* An exception other than json.JSONDecodeError leaves _parse_response.
Raised(exc) == [raised |-> TRUE, exc |-> exc]

ToActionType_Unchecked(action_str) ==
    IF action_str = <<>> \/ action_str[1] = NONE THEN "QUERY"
    ELSE Val(action_str[1])

\* data.get("action", "QUERY"), then ActionType(action_str), a ValueError
\* giving ActionType.QUERY.
ToActionType(action_str) ==
    IF action_str = <<>> THEN "QUERY"
    ELSE IF action_str[1] # NONE /\ Val(action_str[1]) \in ActionType
         THEN Val(action_str[1])
    ELSE "QUERY"

DecodeFailed_ResponseText(raw_response) ==
    AgentResponse("QUERY", "dict", EmptyParams, Strip(raw_response),
                  raw_response)

\* except json.JSONDecodeError: QUERY with the raw text for message.
DecodeFailed(raw_response) ==
    AgentResponse("QUERY", "dict", EmptyParams, raw_response, raw_response)

\* _parse_response(raw_response)
parse_response(raw_response) ==
    LET loaded == json_loads(ResponseText(raw_response))
    IN  IF loaded = NONE THEN DecodeFailed(raw_response)
        ELSE LET data == Val(loaded)
             IN  IF data.type # "object" THEN Raised("AttributeError")
                 ELSE AgentResponse(
                          ToActionType(data.action),
                          IF data.params = <<>> \/ data.params[1] # NONE
                          THEN "dict" ELSE "null",
                          IF data.params = <<>> \/ data.params[1] = NONE
                          THEN EmptyParams ELSE Val(data.params[1]),
                          IF data.message = <<>> THEN DefaultMessage
                          ELSE Val(data.message[1]),
                          raw_response)

\* except Exception of process_message: QUERY with the apology.
ApiFailed ==
    AgentResponse("QUERY", "dict", EmptyParams, Apology, <<"error">>)

\* process_message(user_message, ...): api_fault is an exception raised by
\* client.messages.create or by response.content[0].text, raw_response the
\* text the model returned otherwise.
process_message(api_fault, raw_response) ==
    IF api_fault THEN ApiFailed
    ELSE LET parsed == parse_response(raw_response)
         IN  IF parsed.raised THEN ApiFailed ELSE parsed

ProcessMessage(api_fault, raw_response) ==
    /\ call' = [op |-> "process_message", api_fault |-> api_fault,
                raw_response |-> raw_response]
    /\ ret' = process_message(api_fault, raw_response)
    /\ UNCHANGED <<tasks, events, task_seq, event_seq, now, conversations,
                   ALLOWED_USER_ID, by_title>>

ParseResponse(raw_response) ==
    /\ call' = [op |-> "_parse_response", raw_response |-> raw_response]
    /\ ret' = parse_response(raw_response)
    /\ UNCHANGED <<tasks, events, task_seq, event_seq, now, conversations,
                   ALLOWED_USER_ID, by_title>>

\* Lines the model may write: the documents, and lines that are not JSON.
NotJsonLines == {"I couldn't understand that. Can you rephrase?",
                 "{\"action\": \"ADD_TASK\", \"params\": {\"title\""}

BodyLines == DocumentTexts \cup NotJsonLines

\* The texts the model may return: a line alone, between blank lines, in a
\* code block (closed, left open, followed or preceded by prose, between
\* blank lines), twice, and an empty code block.
RawResponses ==
    UNION {{<<b>>, <<"", b, " ">>, <<FenceJson, b, Fence>>,
            <<Fence, b, Fence>>, <<FenceJson, b>>,
            <<FenceJson, b, Fence, "Done.">>,
            <<"Here it is:", FenceJson, b, Fence>>,
            <<" ", FenceJson, b, Fence, "">>, <<b, b>>} : b \in BodyLines}
    \cup {<<FenceJson, Fence>>, <<"">>}

NextClassifier ==
    \/ \E f \in BOOLEAN, r \in RawResponses : ProcessMessage(f, r)
    \/ \E r \in RawResponses : ParseResponse(r)

SpecClassifier == InitLate /\ [][NextClassifier]_vars

\* The document names one of the eight kinds under "action".
NamesAction(data) ==
    /\ data.type = "object"
    /\ data.action # <<>>
    /\ data.action[1] # NONE
    /\ Val(data.action[1]) \in ActionType

\* The text, read by json.loads, is not a JSON object naming a kind.
NoActionIn(text) ==
    \/ json_loads(text) = NONE
    \/ ~ NamesAction(Val(json_loads(text)))

\* C21 as stated: process_message never raises and returns one of the eight
\* kinds; the kind is QUERY whenever the API call raised, the output is not
\* valid JSON or not a JSON object, or the action is missing or not one of
\* the eight kinds.
C21_FailsClosedOnRawText ==
    call.op = "process_message" =>
        /\ ~ ret.raised
        /\ ret.action \in ActionType
        /\ (call.api_fault \/ NoActionIn(call.raw_response))
               => ret.action = "QUERY"

\* C21: process_message never raises and returns one of the eight kinds;
\* the kind is QUERY whenever the API call raised or the output, with the
\* whitespace around it stripped and a leading code block unwrapped, is not
\* valid JSON, is not a JSON object, or has an action that is missing or not
\* one of the eight kinds.
C21_FailsClosed ==
    call.op = "process_message" =>
        /\ ~ ret.raised
        /\ ret.action \in ActionType
        /\ (call.api_fault \/ NoActionIn(ResponseText(call.raw_response)))
               => ret.action = "QUERY"

\* The model answered with JSON that is not an object, in a code block.
C21_Witness ==
    /\ call.op = "process_message"
    /\ ~ call.api_fault
    /\ StartsWithFence(call.raw_response[1])
    /\ json_loads(ResponseText(call.raw_response)) # NONE
    /\ Val(json_loads(ResponseText(call.raw_response))).type = "array"
    /\ ~ ret.raised
    /\ ret.action = "QUERY"

\* C22: when the classifier call errors or the output cannot be parsed,
\* process_message returns QUERY with the fixed apology for message, the
\* same text in both cases.
C22_ApologyOnFault ==
    (/\ call.op = "process_message"
     /\ \/ call.api_fault
        \/ json_loads(ResponseText(call.raw_response)) = NONE)
        => (~ ret.raised /\ ret.action = "QUERY" /\ ret.message = Apology)

\* What _parse_response returns for a text it cannot decode.
RawTextAsQuery ==
    /\ ~ ret.raised
    /\ ret.action = "QUERY"
    /\ ret.params_type = "dict"
    /\ ret.params = EmptyParams
    /\ ret.message = call.raw_response

\* C23 as stated: _parse_response on a text that is not valid JSON returns
\* QUERY with empty params and the raw text for message.
C23_NotJsonGivesRawQuery ==
    (call.op = "_parse_response" /\ json_loads(call.raw_response) = NONE)
        => RawTextAsQuery

\* C23: _parse_response on a text that, with the whitespace around it
\* stripped and a leading code block unwrapped, is not valid JSON returns
\* QUERY with empty params and the raw text for message, character for
\* character (the whitespace and the code block included).
C23_UndecodableGivesRawQuery ==
    (/\ call.op = "_parse_response"
     /\ json_loads(ResponseText(call.raw_response)) = NONE)
        => RawTextAsQuery

\* Prose between blank lines came back as it was written.
C23_Witness ==
    /\ call.op = "_parse_response"
    /\ json_loads(ResponseText(call.raw_response)) = NONE
    /\ Strip(call.raw_response) # call.raw_response
    /\ Strip(call.raw_response) # <<>>
    /\ ret.message = call.raw_response

----------------------------------------------------------------------------
(***************************************************************************)
(* The conversation log: add_conversation and get_recent_conversations.     *)
(* conversations holds the rows of conversation_context in the order of     *)
(* their ids.                                                               *)
(***************************************************************************)

\* The clock reading at which daylight saving time ends in the user's time
\* zone: from there on the offset is "-06:00" and the wall clock is set back.
FallBack == 2

\* datetime.now(tz) when the clock reads n: the wall clock runs two half
\* hours ahead under "-05:00".
LocalTime(n) == IF n < FallBack THEN Datetime(n + 2, 10) ELSE Datetime(n, 12)

\* ORDER BY timestamp DESC LIMIT limit: the rows in an order in which no row
\* precedes one with a greater timestamp, cut after limit rows (all of them
\* for a negative limit).
RecentDescending(limit) ==
    {IF limit < 0 \/ limit > Len(order) THEN order
     ELSE SubSeq(order, 1, limit) :
        order \in {o \in Arrangements(DOMAIN conversations) :
                      \A i, j \in DOMAIN o :
                          i < j => TextLeq(conversations[o[j]].timestamp,
                                           conversations[o[i]].timestamp)}}

\* reversed(rows)
Reversed(rows) == [i \in DOMAIN rows |-> rows[Len(rows) + 1 - i]]

\* get_recent_conversations(limit): the results it may give, as the ids of
\* the rows returned.
get_recent_conversations(limit) ==
    {Reversed(rows) : rows \in RecentDescending(limit)}

AddConversation(user_message, bot_response) ==
    /\ Len(conversations) < MaxConversations
    /\ \E n \in now..MaxTime :
          /\ now' = n
          /\ conversations' = add_conversation(conversations, user_message,
                                               bot_response, LocalTime(n))
    /\ call' = [op |-> "add_conversation", user_message |-> user_message,
                bot_response |-> bot_response]
    /\ ret' = Some(Len(conversations) + 1)
    /\ UNCHANGED <<tasks, events, task_seq, event_seq, ALLOWED_USER_ID, by_title>>

GetRecentConversations(limit) ==
    /\ call' = [op |-> "get_recent_conversations", limit |-> limit]
    /\ ret' \in get_recent_conversations(limit)
    /\ UNCHANGED <<tasks, events, task_seq, event_seq, now, conversations,
                   ALLOWED_USER_ID, by_title>>

\* A fresh store with the clock at its first reading.
InitLog ==
    /\ tasks = <<>>
    /\ events = <<>>
    /\ task_seq = 0
    /\ event_seq = 0
    /\ now = 1
    /\ call = [op |-> "init_db"]
    /\ ret = NONE
    /\ conversations = <<>>
    /\ ALLOWED_USER_ID = NONE
    /\ by_title = Idle

LogMessages == {"hi", "add milk"}

LogReplies == {ClassifierMessage, GenericError}

LogLimits == 0..(MaxConversations + 1)

NextLog ==
    \/ \E m \in LogMessages, r \in LogReplies : AddConversation(m, r)
    \/ \E l \in LogLimits : GetRecentConversations(l)

SpecLog == InitLog /\ [][NextLog]_vars

\* The least of two numbers.
Min(a, b) == IF a <= b THEN a ELSE b

\* C24: get_recent_conversations(limit) returns exactly the min(limit, n)
\* entries appended last, the oldest of them first; no operation modifies or
\* removes a logged entry.
C24_RecentInOrder ==
    [][/\ Len(conversations') >= Len(conversations)
       /\ SubSeq(conversations', 1, Len(conversations)) = conversations
       /\ call'.op = "get_recent_conversations" =>
            LET n == Len(conversations)
                k == Min(call'.limit, n)
            IN  ret' = [i \in 1..k |-> n - k + i]]_vars

----------------------------------------------------------------------------
\* C25: once a task is completed it stays completed and keeps its
\* completed_at for as long as it is stored, whatever store operation or
\* dispatched action comes next.
C25_CompletedOnce ==
    [][\A i \in DOMAIN tasks \cap DOMAIN tasks' :
          tasks[i].status = "completed"
              => /\ tasks'[i].status = "completed"
                 /\ tasks'[i].completed_at = tasks[i].completed_at]_vars

----------------------------------------------------------------------------
(* update_task on pending and completed tasks, with new and with old values. *)

UpdateFields ==
    {[NoTaskKw EXCEPT !.title = <<<<"A", "b">>>>],
     [NoTaskKw EXCEPT !.title = <<<<"a", "b", "c">>>>, !.priority = <<"high">>],
     [NoTaskKw EXCEPT !.deadline = <<Some(Datetime(1, 10))>>]}

NextUpdateTask ==
    \/ AddTask(<<"A", "b">>, NONE, "medium", NONE)
    \/ AddEvent(<<"A", "b">>, Some(Text(1, 12)), NONE, NONE, NONE, "bot")
    \/ \E i \in 1..MaxTasks : CompleteTask(Some(i), NONE)
    \/ \E i \in 0..MaxTasks, kw \in UpdateFields : UpdateTask(i, kw)

SpecUpdateTask == InitLate /\ [][NextUpdateTask]_vars

\* C26: update_task with at least one recognized field returns true exactly
\* when a task with the id is stored, pending or completed, the new values
\* equal to the old or not; in that task the named fields take the values
\* given and every other column keeps its value; every other task, every
\* event and the log are as before.
C26_UpdateTaskFrame ==
    [][call'.op = "update_task" =>
          LET id == call'.task_id
              named == {k \in {"title", "description", "deadline",
                               "priority", "status"} : call'.kw[k] # <<>>}
          IN  named # {} =>
                /\ ret' = (id \in DOMAIN tasks)
                /\ DOMAIN tasks' = DOMAIN tasks
                /\ \A i \in DOMAIN tasks \ {id} : tasks'[i] = tasks[i]
                /\ id \in DOMAIN tasks =>
                      \A c \in DOMAIN tasks[id] :
                          tasks'[id][c] =
                              IF c \notin named THEN tasks[id][c]
                              ELSE IF c = "deadline"
                                   THEN AsIsoText(call'.kw[c][1])
                              ELSE call'.kw[c][1]
                /\ events' = events
                /\ task_seq' = task_seq
                /\ conversations' = conversations]_vars

\* update_task has renamed and re-prioritized a completed task beside
\* another task and an event; its completed_at is still there.
C26_Witness ==
    /\ call.op = "update_task"
    /\ call.kw["title"] = <<<<"a", "b", "c">>>>
    /\ ret = TRUE
    /\ Cardinality(DOMAIN tasks) = 2
    /\ events # <<>>
    /\ tasks[call.task_id].status = "completed"
    /\ tasks[call.task_id].completed_at # NONE
    /\ tasks[call.task_id].title = <<"a", "b", "c">>
    /\ tasks[call.task_id].priority = "high"
    /\ \E i \in DOMAIN tasks : tasks[i].title = <<"A", "b">>

----------------------------------------------------------------------------
(* Dispatch with an id and a title given together.                          *)

\* An id no record has.
MissingId == MaxTasks + MaxEvents + 1

\* Bags with both the id and a title every record matches: the id of a
\* record; an id no record has; id 0; a null id.
BothParams(idk, titlek) ==
    {[EmptyParams EXCEPT ![idk] = <<id>>, ![titlek] = <<Some(<<"b">>)>>] :
        id \in {Some(1), Some(2), Some(MissingId), Some(0), NONE}}

PrecedenceResponses ==
    {Response("COMPLETE_TASK", p) : p \in BothParams("task_id", "task_title")}
    \cup {Response("DELETE_TASK", p) : p \in BothParams("id", "title")}
    \cup {Response("DELETE_EVENT", p) : p \in BothParams("id", "title")}
    \cup {Response("MODIFY_TASK", [p EXCEPT !.new_priority = <<Some("high")>>])
            : p \in BothParams("task_id", "task_title")}
    \cup {Response("MODIFY_EVENT", [p EXCEPT !.new_location = <<Some(<<"c">>)>>])
            : p \in BothParams("event_id", "event_title")}

NextPrecedence ==
    \/ ExecuteAction(Response("ADD_TASK",
          [EmptyParams EXCEPT !.title = <<Some(<<"A", "b">>)>>]), 0)
    \/ ExecuteAction(Response("ADD_EVENT",
          [EmptyParams EXCEPT !.title = <<Some(<<"A", "b">>)>>,
                              !.start_time = <<Some(Text(1, 12))>>]), 0)
    \/ \E r \in PrecedenceResponses : ExecuteAction(r, 0)

SpecPrecedence == InitLate /\ [][NextPrecedence]_vars

\* The keys of the id and of the title in the bag of an action.
IdKey(action) ==
    CASE action \in {"COMPLETE_TASK", "MODIFY_TASK"} -> "task_id"
      [] action = "MODIFY_EVENT" -> "event_id"
      [] OTHER -> "id"

TitleKey(action) ==
    CASE action \in {"COMPLETE_TASK", "MODIFY_TASK"} -> "task_title"
      [] action = "MODIFY_EVENT" -> "event_title"
      [] OTHER -> "title"

OnEvents(action) == action \in {"DELETE_EVENT", "MODIFY_EVENT"}

\* The message with which an action reports that it found no target.
Failures(action) ==
    CASE action = "COMPLETE_TASK" -> {CompleteFallback}
      [] action = "DELETE_TASK" -> {DeleteTaskFallback}
      [] action = "DELETE_EVENT" -> {DeleteEventFallback}
      [] action = "MODIFY_TASK" -> {ModifyTaskFallback, UpdateTaskFallback}
      [] action = "MODIFY_EVENT" -> {ModifyEventFallback, UpdateEventFallback}

\* No row other than those of ids was written or removed, none was added.
OnlyTouched(before, after, ids) ==
    /\ DOMAIN after \subseteq DOMAIN before
    /\ \A i \in DOMAIN before \ ids : i \in DOMAIN after /\ after[i] = before[i]

\* The dispatch went by the id alone: no record but the one with that id is
\* touched, and when no record has it a failure is reported.
ById(action, id) ==
    /\ IF OnEvents(action)
       THEN /\ OnlyTouched(events, events', {id})
            /\ tasks' = tasks
            /\ id \notin DOMAIN events => ret'.message \in Failures(action)
       ELSE /\ OnlyTouched(tasks, tasks', {id})
            /\ events' = events
            /\ id \notin DOMAIN tasks => ret'.message \in Failures(action)

\* The dispatch went by the title: no record but the pick of the fuzzy
\* lookup is touched, and when there is no pick a failure is reported.
ByTitle(action, title) ==
    /\ IF OnEvents(action)
       THEN /\ OnlyTouched(events, events', fuzzy_match_event(title))
            /\ tasks' = tasks
            /\ fuzzy_match_event(title) = {}
                   => ret'.message \in Failures(action)
       ELSE /\ OnlyTouched(tasks, tasks', fuzzy_match_task(title))
            /\ events' = events
            /\ fuzzy_match_task(title) = {}
                   => ret'.message \in Failures(action)

Resolving ==
    /\ call'.op = "_execute_action"
    /\ call'.fault = 0
    /\ call'.response.params_type = "dict"
    /\ call'.response.action \in {"COMPLETE_TASK", "DELETE_TASK",
                                  "DELETE_EVENT", "MODIFY_TASK",
                                  "MODIFY_EVENT"}

----------------------------------------------------------------------------
(***************************************************************************)
(* The by-title calls statement by statement, other coroutines writing to   *)
(* the store between the statements.  fuzzy_match_* runs its exact query    *)
(* and, when that fetches no row, its LIKE query; complete_task,            *)
(* delete_task and delete_event by title then run their statement on the    *)
(* id of the row fetched.  Each statement is atomic; by_title holds the     *)
(* call in progress.                                                        *)
(***************************************************************************)

OnTasks(op) == op \in {"fuzzy_match_task", "complete_task", "delete_task"}

\* The rows the first query of fuzzy_match_* selects.
ExactRows(op, title) ==
    IF OnTasks(op) THEN TaskExactRows(title) ELSE EventExactRows(title)

\* The rows fetchone() may give after the second query of fuzzy_match_*: the
\* first in its ORDER BY.
LikeFirstRows(op, title) ==
    IF OnTasks(op)
    THEN {i \in TaskLikeRows(title) :
            \A j \in TaskLikeRows(title) :
                RankLeq(TaskRank(i, title), TaskRank(j, title))}
    ELSE {i \in EventLikeRows(title) :
            \A j \in EventLikeRows(title) : EventBefore(i, j, title)}

\* The call starts and runs the first query of fuzzy_match_*; complete_task
\* has read the clock before.
ExactQuery(op, title) ==
    /\ by_title.pc = "idle"
    /\ \E c \in get_current_time, row \in Fetched(ExactRows(op, title)) :
          by_title' = [pc |-> IF row = NONE THEN "like" ELSE "found",
                       op |-> op, title |-> title, found |-> row,
                       via |-> "exact",
                       at |-> IF op = "complete_task"
                              THEN Some(format_datetime_iso(c)) ELSE NONE]
    /\ UNCHANGED <<tasks, events, task_seq, event_seq, now, call, ret,
                   conversations, ALLOWED_USER_ID>>

\* The first query fetched no row: the second query of fuzzy_match_*.
LikeQuery ==
    /\ by_title.pc = "like"
    /\ \E row \in Fetched(LikeFirstRows(by_title.op, by_title.title)) :
          by_title' = [by_title EXCEPT !.pc = "found", !.found = row,
                                       !.via = "like"]
    /\ UNCHANGED <<tasks, events, task_seq, event_seq, now, call, ret,
                   conversations, ALLOWED_USER_ID>>

\* fuzzy_match_* returns the row; complete_task, delete_task and delete_event
\* return False without a row and else run their statement on its id.
Finish ==
    /\ by_title.pc = "found"
    /\ LET op == by_title.op
           found == by_title.found
       IN  /\ call' = [op |-> op, title |-> Some(by_title.title)]
           /\ IF op \in {"fuzzy_match_task", "fuzzy_match_event"}
              THEN ret' = found /\ UNCHANGED <<tasks, events>>
              ELSE IF found = NONE
              THEN ret' = FALSE /\ UNCHANGED <<tasks, events>>
              ELSE IF op = "complete_task"
              THEN /\ tasks' = CompleteRows(Val(found), Val(by_title.at))
                   /\ ret' = (CompleteMatches(Val(found)) # {})
                   /\ events' = events
              ELSE IF op = "delete_task"
              THEN /\ tasks' = DeleteWhereId(tasks, Val(found))
                   /\ ret' = (Val(found) \in DOMAIN tasks)
                   /\ events' = events
              ELSE /\ events' = DeleteWhereId(events, Val(found))
                   /\ ret' = (Val(found) \in DOMAIN events)
                   /\ tasks' = tasks
    /\ by_title' = Idle
    /\ UNCHANGED <<task_seq, event_seq, now, conversations, ALLOWED_USER_ID>>

ByTitleOps == {"fuzzy_match_task", "complete_task", "delete_task",
               "fuzzy_match_event", "delete_event"}

\* The calls by title of one coroutine, and the writes of the others.
NextConcurrent ==
    \/ \E op \in ByTitleOps : ExactQuery(op, <<"a", "b">>)
    \/ LikeQuery
    \/ Finish
    \/ \E t \in ResolveTitles : AddTask(t, NONE, "medium", NONE)
    \/ \E i \in 1..MaxTasks : CompleteTask(Some(i), NONE)
    \/ \E i \in 1..MaxTasks : DeleteTask(Some(i), NONE)
    \/ \E t \in ResolveTitles :
          AddEvent(t, Some(Text(1, 12)), NONE, NONE, NONE, "bot")
    \/ \E i \in 1..MaxEvents : DeleteEvent(Some(i), NONE)

SpecConcurrent == InitLate /\ [][NextConcurrent]_vars

\* The picks of the exact-then-substring ranking on the store as it is.
Picks(op, title) ==
    IF OnTasks(op) THEN Fetched(fuzzy_match_task(title))
    ELSE Fetched(fuzzy_match_event(title))

\* C28: whatever is written between the statements of a by-title call, the
\* row a fuzzy lookup comes back with is a pick of the exact-then-substring
\* ranking on the store as it was when the lookup's last query ran, and the
\* statement of a by-title complete or delete touches no record but that row.
C28_OneLogicalRead ==
    [][/\ (by_title.pc # "found" /\ by_title'.pc = "found")
            => by_title'.found \in Picks(by_title'.op, by_title'.title)
       /\ (by_title.pc = "found" /\ by_title'.pc = "idle")
            => LET kept == IF by_title.found = NONE THEN {}
                           ELSE {Val(by_title.found)}
               IN  IF OnTasks(by_title.op)
                   THEN OnlyTouched(tasks, tasks', kept) /\ events' = events
                   ELSE OnlyTouched(events, events', kept) /\ tasks' = tasks
      ]_vars

\* The exact query of delete_task found no row, a task with exactly that
\* title was added meanwhile, and the LIKE query came back with it.
C28_Witness ==
    /\ by_title.pc = "found"
    /\ by_title.op = "delete_task"
    /\ by_title.via = "like"
    /\ by_title.found # NONE
    /\ Val(by_title.found) \in DOMAIN tasks
    /\ SqlLower(tasks[Val(by_title.found)].title) = PyLower(by_title.title)
    /\ Cardinality(DOMAIN tasks) = 2

----------------------------------------------------------------------------
(* The source tag of events under update_event and the dispatched actions.  *)

SourceModifyParams ==
    {[EmptyParams EXCEPT !.event_id = <<Some(i)>>,
                         !.new_location = <<Some(<<"c">>)>>]
        : i \in 1..MaxEvents}

NextSource ==
    \/ ExecuteAction(Response("ADD_EVENT",
          [EmptyParams EXCEPT !.title = <<Some(<<"A", "b">>)>>,
                              !.start_time = <<Some(Text(1, 12))>>]), 0)
    \/ AddEvent(<<"A", "b">>, Some(Text(1, 12)), NONE, NONE, NONE, "gcal")
    \/ \E p \in SourceModifyParams : ExecuteAction(Response("MODIFY_EVENT", p), 0)
    \/ \E i \in 1..MaxEvents :
          ExecuteAction(Response("DELETE_EVENT",
              [EmptyParams EXCEPT !.id = <<Some(i)>>]), 0)
    \/ \E i \in 1..MaxEvents, kw \in UpdateEventKw : UpdateEvent(i, kw)

SpecSource == InitLate /\ [][NextSource]_vars

\* C29: no step changes the source of an event that stays stored, an
\* update_event call given a source included, and every event a dispatched
\* action adds has source 'bot'.
C29_SourceImmutable ==
    [][/\ \A i \in DOMAIN events \cap DOMAIN events' :
             events'[i].source = events[i].source
       /\ call'.op = "_execute_action" =>
             \A i \in DOMAIN events' \ DOMAIN events :
                 events'[i].source = "bot"]_vars

\* update_event was given a start time and source 'gcal' for an event the
\* dispatcher added: the start time is written, the source is still 'bot'.
C29_Witness ==
    /\ call.op = "update_event"
    /\ call.kw["source"] = <<"gcal">>
    /\ call.kw["start_time"] # <<>>
    /\ ret = TRUE
    /\ events[call.event_id].source = "bot"
    /\ events[call.event_id].start_time = Some(Text(2, 10))
    /\ \E i \in DOMAIN events : events[i].source = "gcal"

----------------------------------------------------------------------------
(* The ids given by add_task and add_event among completes, updates and     *)
(* deletes.                                                                 *)

NextIds ==
    \/ \E t \in LifeTitles : AddTask(t, NONE, "medium", NONE)
    \/ \E i \in 1..MaxTasks : CompleteTask(Some(i), NONE)
    \/ \E i \in 1..MaxTasks :
          UpdateTask(i, [NoTaskKw EXCEPT !.title = <<<<"c">>>>, !.id = <<1>>])
    \/ \E i \in 1..MaxTasks : DeleteTask(Some(i), NONE)
    \/ AddEvent(<<"A", "b">>, Some(Text(1, 12)), NONE, NONE, NONE, "bot")
    \/ \E i \in 1..MaxEvents :
          UpdateEvent(i, [NoEventKw EXCEPT !.title = <<<<"c">>>>, !.id = <<1>>])
    \/ \E i \in 1..MaxEvents : DeleteEvent(Some(i), NONE)

SpecIds == InitLate /\ [][NextIds]_vars

\* The rows of a table are stored under their own ids, and a row that stays
\* keeps its id.
IdsKept(before, after) ==
    /\ \A i \in DOMAIN after : after[i].id = i
    /\ \A i \in DOMAIN before \cap DOMAIN after : after[i].id = before[i].id

\* C30: task_seq and event_seq, the largest ids ever given, never decrease
\* and no stored id exceeds them; every add_task and add_event returns a
\* positive id above them, hence different from every id given before, the
\* ids of deleted records included, and stores the new record under it; no
\* other operation adds a record or changes an id.
C30_IdsNeverReused ==
    [][/\ task_seq' >= task_seq
       /\ event_seq' >= event_seq
       /\ DOMAIN tasks' \subseteq 1..task_seq'
       /\ DOMAIN events' \subseteq 1..event_seq'
       /\ IdsKept(tasks, tasks')
       /\ IdsKept(events, events')
       /\ IF call'.op = "add_task"
          THEN /\ ret' > 0
               /\ ret' > task_seq
               /\ task_seq' = ret'
               /\ DOMAIN tasks' = DOMAIN tasks \cup {ret'}
          ELSE DOMAIN tasks' \subseteq DOMAIN tasks /\ task_seq' = task_seq
       /\ IF call'.op = "add_event"
          THEN /\ ret' > 0
               /\ ret' > event_seq
               /\ event_seq' = ret'
               /\ DOMAIN events' = DOMAIN events \cup {ret'}
          ELSE DOMAIN events' \subseteq DOMAIN events /\ event_seq' = event_seq
      ]_vars

\* Task 1 was added and deleted; the next add_task returned 2.
C30_Witness ==
    /\ call.op = "add_task"
    /\ ret = 2
    /\ DOMAIN tasks = {2}
    /\ tasks[2].id = 2

----------------------------------------------------------------------------
(* The whole store: every method, with the arguments of all the above.      *)

Next ==
    \/ NextLife
    \/ NextFuzzy
    \/ NextUpdate
    \/ NextEvents
    \/ NextDue
    \/ \E i \in 0..MaxTasks : GetTask(i)
    \/ \E i \in EventIdArgs, t \in OptionOf(EventQueries) : DeleteEvent(i, t)
    \/ NextAdd
    \/ NextResolve
    \/ NextModify
    \/ NextDispatch
    \/ NextHandler
    \/ NextClassifier
    \/ NextLog
    \/ NextUpdateTask
    \/ NextPrecedence
    \/ NextConcurrent
    \/ NextSource
    \/ NextIds

Spec == Init /\ [][Next]_vars

====
